---- MODULE Spec2Model ----
(***************************************************************************)
(* State-machine model of the PPMI downloader: the retry helpers of        *)
(* HTMLHelper (click_button, enter_data, submit_button), the download       *)
(* pollers of PPMIDownloader (the download_complete predicates run by       *)
(* WebDriverWait.until), the session (temporary directory, driver) and the  *)
(* three download operations as instruction sequences.                      *)
(***************************************************************************)
EXTENDS Integers, Sequences, FiniteSets, TLC

VARIABLES
    op,               \* the download operation in progress ("none": a bare helper call)
    file_ids,         \* the `file_ids` argument of download_metadata
    pc,               \* index of the current instruction in Program(op)
    error,            \* the exception that reached the caller ("none" while running)
    returned,         \* the operation returned normally
    steps,            \* phases of the operation in the order they were entered
    driver,           \* "open" | "closed"  (self.driver, closed by driver.quit())
    tempdir,          \* "exists" | "removed" (self.tempdir, removed by cleanup())
    files,            \* the set of file names in self.tempdir.name
    dest,             \* the set of file names in destination_dir
    helper,           \* the retry helper whose frame is active
    trials,           \* the `trials` argument of the active frame
    opFails,          \* how many more attempts of the wrapped operation fail
    opKind,           \* the exception a failing attempt raises
    attempts,         \* attempts of the wrapped operation made by this call
    rpc,              \* "idle" | "frame" | "returned" | "raised"
    budget,           \* the `trials` argument the helper was called with
    failures,         \* the number of failing attempts the operation started with
    elapsed,          \* seconds passed since the helper was called
    clock,            \* polls elapsed since WebDriverWait.until started
    timeout,          \* the `timeout` argument, in poll intervals
    pollResult,       \* "none" | "polling" | "complete" | "TimeoutException"
    lastListing,      \* the listing the last download_complete call saw
    lastResult,       \* what it returned: "none" | "True" | "False" | "AssertionError"
    triggers,         \* download-triggering clicks done
    screenshots,      \* screenshots taken by take_screenshot
    routed,           \* the file router was invoked
    i,                \* loop counter of unzip_metadata / index in unzip_imaging_data
    downloaded_files, \* the list handed to unzip_imaging_data
    result,           \* what the router returned to the operation
    logged,           \* the names in the last "Successfully downloaded" message
    calls,            \* the download operations called on this PPMIDownloader
    left,             \* the files in tempdir when the operation in progress was called
    teardown,         \* the calls of quit() and __del__ made, with what they raised
    stale,            \* a command was sent to the driver after it was closed
    real,             \* find_matching: the list of real names
    guess,            \* find_matching: the keys of the dict of guessed names, in order
    algorithms,       \* find_matching: algorithm -> its normalized_similarity
    global_scores,    \* find_matching: the dict it builds and returns
    self_real_to_guessed, \* the dict _get_real_name builds from guessed_to_real.json
    config_file,      \* the [ppmi] section of the configuration file, or no file
    environ,          \* os.environ: PPMI_LOGIN and PPMI_PASSWORD
    email,            \* self.email
    password,         \* self.password
    consulted,        \* the sources __set_credentials asked, in order
    stored,           \* the credentials of the construction that wrote config_file
    chain,            \* click_button_chain: its argument
    action,           \* click_button_chain: the list of cleaned names
    called,           \* the navigator methods click_button_chain has called
    running,          \* the navigator method in progress, << >> when none is
    finished,         \* how many of the methods called have returned
    url,              \* check_url_query: the query parameters of its `url`
    queries,          \* check_url_query: its `queries` argument
    checked,          \* what check_url_query returned: "none" | "True" | "False"
    portal,           \* "arbitrary": any answer at any time | "regular": see below
    logged_in,        \* the portal holds a login for the session of the driver
    credentials,      \* "valid" | "invalid": what the portal makes of email, password
    invalid_login,    \* the page displays the invalid-login message
    was_logged_in,    \* logged_in at the time login() was called
    hamburger,        \* the window is small: the hamburger button is displayed
    active,           \* the menu elements that carry the class `active`
    current_url,      \* self.driver.current_url
    clicked,          \* the elements clicked since the navigator action was called
    selected,         \* the ids of the checkboxes of the page that are selected
    enabled           \* the ids of the buttons of the page that are enabled

\* the state of a session and of its download operation
sessionState == <<op, file_ids, pc, error, returned, steps, driver, tempdir, files,
                  dest, helper, trials, opFails, opKind, attempts, rpc, budget,
                  failures, elapsed, clock, timeout, pollResult, lastListing,
                  lastResult, triggers, screenshots, routed, i, downloaded_files,
                  result, logged>>

\* the state of what runs outside a download operation
matchVars == <<real, guess, algorithms, global_scores, self_real_to_guessed>>
credentialVars == <<config_file, environ, email, password, consulted, stored>>
chainVars == <<chain, action, called, running, finished>>
queryVars == <<url, queries, checked>>
offlineVars == <<matchVars, credentialVars, chainVars, queryVars>>

\* the state of the portal, followed only when portal = "regular"
portalVars == <<portal, logged_in, credentials, invalid_login, was_logged_in>>

\* the page the driver is on, followed only when portal = "regular"
pageVars == <<hamburger, active, current_url, clicked, selected, enabled>>

\* the life of the PPMIDownloader around its operations
lifeVars == <<calls, left, teardown, stale>>

vars == <<sessionState, offlineVars, portalVars, pageVars, lifeVars>>

sessionVars == <<driver, tempdir, screenshots>>
helperVars == <<helper, trials, opFails, opKind, attempts, rpc, budget, failures,
               elapsed>>
pollVars == <<clock, pollResult, lastListing, lastResult>>
routeVars == <<routed, i, downloaded_files, dest, result, logged>>

-----------------------------------------------------------------------------
(* Bounds of the model *)

MaxScore == 1      \* largest similarity an algorithm gives, in units of 1/MaxScore
MaxChain == 3      \* longest chain given to click_button_chain
MaxCalls == 2      \* most download operations called on one PPMIDownloader
MaxQuits == 1      \* most calls of quit() by the user of a PPMIDownloader
MaxParams == 2     \* most query parameters of a URL given to check_url_query

MaxTrials == 3     \* largest `trials` argument tried on a bare helper call
MaxFails == 4      \* largest number of failing attempts of a wrapped operation
MaxFiles == 3      \* longest directory listing
MaxTimeout == 2    \* largest poller timeout, in poll intervals
MaxIds == 2        \* longest list of identifiers given to download_metadata

(* Program constants *)

TIMEOUT == 5                \* ppmi_navigator.py: TIMEOUT, in seconds
TRIALS == 6                 \* ppmi_navigator.py: TRIALS
UnzipMetadataChecks == 10   \* unzip_metadata: while ... and i < 10
ExpectedImagingFiles == 3   \* download_imaging_data: assert len(downloaded_files) == 3

-----------------------------------------------------------------------------
(* File names.  A name is the sequence of its dot-separated parts, the      *)
(* stem first and every later part with its leading dot, so that            *)
(* "x.csv.crdownload" is <<"x", ".csv", ".crdownload">>.                    *)

csvFile == <<"x", ".csv">>
zipFile == <<"archive", ".zip">>
xmlFile == <<"m", ".xml">>
tmpFile == <<"t", ".tmp">>
csvPartial == <<"x", ".csv", ".crdownload">>

FileNames == {csvFile, zipFile, xmlFile, tmpFile, csvPartial}

\* str.endswith(suffix) / str.endswith((s1, s2, ...)): the name's last part
EndsWith(name, suffixes) == name[Len(name)] \in suffixes

Marker == {".crdownload"}

\* every os.listdir result of at most MaxFiles distinct names, in any order
Listings ==
    { s \in UNION { [1..n -> FileNames] : n \in 0..MaxFiles } :
        \A a, b \in DOMAIN s : a # b => s[a] # s[b] }

Range(s) == { s[k] : k \in DOMAIN s }

\* os.listdir(directory): the names of the directory in an arbitrary order
Orderings(S) == { s \in Listings : Range(s) = S }

HasMarker(names) == \E k \in DOMAIN names : EndsWith(names[k], Marker)

Operations == {"download_metadata", "download_3D_T1_info", "download_imaging_data"}

\* the extensions each operation's poller asserts
Accepted(o) ==
    CASE o = "download_metadata" -> {".csv", ".zip"}
      [] o = "download_3D_T1_info" -> {".csv"}
      [] o = "download_imaging_data" -> {".csv", ".zip", ".dcm", ".xml"}

\* the number of names each operation expects from the browser
Expected(o) == IF o = "download_imaging_data" THEN ExpectedImagingFiles ELSE 1

-----------------------------------------------------------------------------
(* The download_complete predicates.  Each returns "True", "False" or       *)
(* "AssertionError" (the assert after the loop tests the loop variable f,   *)
(* which is the last name listed).  The listing is taken as stable during   *)
(* one call; os.stat is used for a debug message only.                      *)

\* download_metadata.download_complete with `len(downloaded_files) != 1`
\* in place of `len(downloaded_files) == 0`
download_metadata_complete_single(names) ==
    IF Len(names) # 1 THEN "False"
    ELSE IF HasMarker(names) THEN "False"
    ELSE IF EndsWith(names[Len(names)], {".csv", ".zip"}) THEN "True"
    ELSE "AssertionError"

\* download_metadata.download_complete
download_metadata_complete(names) ==
    IF Len(names) = 0 THEN "False"
    ELSE IF HasMarker(names) THEN "False"
    ELSE IF EndsWith(names[Len(names)], {".csv", ".zip"}) THEN "True"
    ELSE "AssertionError"

\* download_imaging_data.download_complete
download_imaging_data_complete(names) ==
    IF Len(names) = 0 THEN "False"
    ELSE IF HasMarker(names) THEN "False"
    ELSE IF EndsWith(names[Len(names)], {".csv", ".zip", ".dcm", ".xml"}) THEN "True"
    ELSE "AssertionError"

\* download_3D_T1_info.download_complete: the loop returns at the first name
\* that ends in .crdownload (False) or in .csv (True)
FirstDecisive(names) ==
    { k \in DOMAIN names :
        /\ EndsWith(names[k], {".crdownload", ".csv"})
        /\ \A j \in 1..(k - 1) : ~EndsWith(names[j], {".crdownload", ".csv"}) }

download_3D_T1_info_complete(names) ==
    IF Len(names) = 0 THEN "False"
    ELSE IF FirstDecisive(names) # {}
         THEN LET k == CHOOSE k \in FirstDecisive(names) : TRUE
              IN  IF EndsWith(names[k], {".crdownload"}) THEN "False" ELSE "True"
    ELSE IF EndsWith(names[Len(names)], {".csv"}) THEN "True"
    ELSE "AssertionError"

download_complete(o, names) ==
    CASE o = "download_metadata" -> download_metadata_complete(names)
      [] o = "download_3D_T1_info" -> download_3D_T1_info_complete(names)
      [] o = "download_imaging_data" -> download_imaging_data_complete(names)

-----------------------------------------------------------------------------
(* Exceptions.  An exception that reaches the caller is a record; logger.error
   prints and calls sys.exit(1) (ERROR is never below loggin_level), so it
   surfaces as SystemExit. *)

NoError == [type |-> "none", msg |-> ""]

\* Python values handed back by the router: None, a str, a list of str
None == [type |-> "None", value |-> << >>]
\* a function that ends without `return file_name`
Str_not_returned(name) == None

Str(name) == [type |-> "str", value |-> name]
List(names) == [type |-> "list", value |-> names]
Raise(t) == [type |-> t, msg |-> ""]

\* icecream_factory returning `lambda msg: ()`: nothing printed, no sys.exit
logger_error_silent(msg) == NoError

logger_error(msg) == [type |-> "SystemExit", msg |-> msg]

\* what an attempt of the wrapped operation (WebDriverWait.until, click,
\* send_keys, submit) can raise
Kinds == {"TimeoutException", "ElementClickInterceptedException",
          "NoSuchWindowException", "MaxRetryError"}

\* selenium.common.exceptions: subclasses of WebDriverException
WebDriverExceptions == {"TimeoutException", "ElementClickInterceptedException",
                        "NoSuchWindowException"}

\* failures that never go away: the window or the driver process is gone
PermanentKinds == {"NoSuchWindowException", "MaxRetryError"}

Helpers == {"click_button", "enter_data", "submit_button"}

-----------------------------------------------------------------------------
(* The retry helpers: one action is one frame of the recursion.             *)

\* `if trials < 0:`
TrialsExceeded(t) == t < 0

\* `except TimeoutException:` in place of `except WebDriverException:`
Retried_transient_only(kind) == kind \in WebDriverExceptions \ PermanentKinds

\* `except WebDriverException:`
Retried(kind) == kind \in WebDriverExceptions

\* the recursive call passes `trials=trials - 1`
NextTrials(t) == t - 1

\* what take_screenshot can end in: the two files are written, open() of the
\* .json fails, or the driver command behind get_screenshot_as_file fails
ScreenshotOutcomes == {"saved", "OSError", "WebDriverException"}

\* the same without self.driver.quit()
take_screenshot_only(msg) ==
    \E shot \in ScreenshotOutcomes :
        IF shot = "saved"
        THEN /\ screenshots' = screenshots + 1
             /\ UNCHANGED driver
             /\ error' = logger_error(msg)
        ELSE /\ UNCHANGED <<screenshots, driver>>
             /\ error' = Raise(shot)

\* an except clause that sleeps a second before the recursive call
AttemptTime_with_backoff(kind) ==
    (IF kind = "TimeoutException" THEN TIMEOUT ELSE 0) + 1

\* the seconds between the start of a failing attempt and the start of the
\* next one: WebDriverWait(self.driver, TIMEOUT).until(...) raises
\* TimeoutException after TIMEOUT seconds, any other failure (of the click,
\* send_keys or submit, or of a driver command) is immediate, and the except
\* clause calls the helper again at once
AttemptTime(kind) == IF kind = "TimeoutException" THEN TIMEOUT ELSE 0

\* take_screenshot(function); self.driver.quit(); logger.error(msg): nothing
\* catches what take_screenshot raises, the statements after it are skipped
take_screenshot_and_quit(msg) ==
    \E shot \in ScreenshotOutcomes :
        IF shot = "saved"
        THEN /\ screenshots' = screenshots + 1
             /\ driver' = "closed"
             /\ error' = logger_error(msg)
        ELSE /\ UNCHANGED <<screenshots, driver>>
             /\ error' = Raise(shot)

RetryFrame(h) ==
    /\ rpc = "frame"
    /\ helper = h
    /\ error = NoError
    /\ IF TrialsExceeded(trials)
       THEN /\ take_screenshot_and_quit("Number of trials is exceeded")
            /\ rpc' = "raised"
            /\ UNCHANGED <<trials, opFails, attempts, elapsed>>
       ELSE /\ attempts' = attempts + 1
            /\ IF opFails = 0
               THEN \* the wait and the click / send_keys / submit succeed
                    /\ rpc' = "returned"
                    /\ UNCHANGED <<trials, opFails, error, driver, screenshots,
                                   elapsed>>
               ELSE IF Retried(opKind)
               THEN \* except WebDriverException: call self again
                    /\ trials' = NextTrials(trials)
                    /\ elapsed' = elapsed + AttemptTime(opKind)
                    /\ opFails' = IF opKind \in PermanentKinds
                                  THEN opFails ELSE opFails - 1
                    /\ UNCHANGED <<rpc, error, driver, screenshots>>
               ELSE \* any other exception leaves the helper
                    /\ error' = Raise(opKind)
                    /\ rpc' = "raised"
                    /\ UNCHANGED <<trials, opFails, driver, screenshots, elapsed>>
    /\ UNCHANGED <<offlineVars, portalVars, pageVars, lifeVars, op, file_ids, pc, returned, steps, tempdir, files, helper, opKind,
                   budget, failures, timeout, triggers>>
    /\ UNCHANGED pollVars
    /\ UNCHANGED routeVars

click_button == RetryFrame("click_button")
enter_data == RetryFrame("enter_data")
submit_button == RetryFrame("submit_button")

\* a dict with no key
EmptyDict == [k \in {} |-> ""]

\* find_matching is not run
NoMatch ==
    /\ real = << >> /\ guess = << >>
    /\ algorithms = EmptyDict
    /\ global_scores = EmptyDict
    /\ self_real_to_guessed = EmptyDict

\* no configuration file, nothing in the environment
Absent == [exists |-> FALSE, login |-> None, password |-> None]
NoEnviron == [PPMI_LOGIN |-> None, PPMI_PASSWORD |-> None]
NotStored == [login |-> None, password |-> None]

\* the credentials are not followed
NoCredentials ==
    /\ config_file = Absent /\ environ = NoEnviron
    /\ email = None /\ password = None /\ consulted = << >>
    /\ stored = NotStored

\* click_button_chain is not followed call by call
NoChain ==
    /\ chain = << >> /\ action = << >> /\ called = << >>
    /\ running = << >> /\ finished = 0

\* check_url_query is not called
NoQuery == url = << >> /\ queries = EmptyDict /\ checked = "none"

\* nothing runs outside the download operation
NoOffline == NoMatch /\ NoCredentials /\ NoChain /\ NoQuery

\* a new PPMIDownloader: its first operation, nothing torn down
NewDownloader ==
    /\ calls = 1 /\ left = {}
    /\ teardown = << >> /\ stale = FALSE

\* the portal is not followed: whatever the page can show, it may show
ArbitraryPortal ==
    /\ NewDownloader
    /\ portal = "arbitrary"
    /\ logged_in = FALSE /\ credentials = "valid"
    /\ invalid_login = FALSE /\ was_logged_in = FALSE
    /\ hamburger = FALSE /\ active = {}
    /\ current_url = "home" /\ clicked = {}
    /\ selected = {} /\ enabled = {}

\* a bare call helper(field, trials = n) on an operation that fails k times
InitRetry ==
    /\ op = "none" /\ pc = 0 /\ file_ids = <<>>
    /\ error = NoError /\ returned = FALSE /\ steps = <<>>
    /\ driver = "open" /\ tempdir = "exists" /\ files = {} /\ dest = {}
    /\ helper \in Helpers
    /\ budget \in -1..MaxTrials
    /\ trials = budget
    /\ failures \in 0..MaxFails
    /\ opFails = failures
    /\ opKind \in Kinds
    /\ failures = 0 => opKind = "TimeoutException"
    /\ opKind \in PermanentKinds => failures = 1
    /\ attempts = 0 /\ rpc = "frame" /\ elapsed = 0
    /\ clock = 0 /\ timeout = 1 /\ pollResult = "none"
    /\ lastListing = <<>> /\ lastResult = "none"
    /\ triggers = 0 /\ screenshots = 0
    /\ routed = FALSE /\ i = 0 /\ downloaded_files = <<>>
    /\ result = None /\ logged = <<>>
    /\ NoOffline
    /\ ArbitraryPortal

NextRetry == click_button \/ enter_data \/ submit_button

SpecRetry == InitRetry /\ [][NextRetry]_vars

-----------------------------------------------------------------------------
(* The download operations as instruction sequences.  An instruction is one
   statement of the source: its kind, the phase of the operation it belongs
   to, and the jumps (relative to its own index) taken when it completes
   (succ) and on its other outcome (alt). *)

I(kind, phase, succ, alt) == [kind |-> kind, phase |-> phase, succ |-> succ, alt |-> alt]

\* `while not postcondition(): self.click_button(...)`
ClickUntil(phase) ==
    << I("postcondition", phase, 1, 2), I("click_button", phase, -1, -1) >>

\* login without the `return` after "Already logged in"
Login_without_return ==
    << I("get", "login", 1, 1),                  \* driver.get(ppmi_main_webpage)
       I("get_cookie", "login", 1, 2),           \* cookie already accepted: return
       I("click_button", "login", 1, 1),         \* ida-cookie-policy-accept
       I("get", "login", 1, 1),                  \* driver.get(ppmi_login_webpage)
       I("wait_visible_raise", "login", 1, 1),   \* visible: go on to the form
       I("wait_visible", "login", 1, 1),         \* userEmail
       I("enter_data", "login", 1, 1),
       I("wait_visible", "login", 1, 1),         \* userPassword
       I("enter_data", "login", 1, 1),
       I("wait_visible", "login", 1, 1),         \* button
       I("click_button", "login", 1, 1),         \* Login button
       I("find_invalid_login", "login", 1, 1) >>

\* HTMLHelper.login, with validate_cookie_policy inlined
Login ==
    << I("get", "login", 1, 1),                  \* driver.get(ppmi_main_webpage)
       I("get_cookie", "login", 1, 2),           \* cookie already accepted: return
       I("click_button", "login", 1, 1),         \* ida-cookie-policy-accept
       I("get", "login", 1, 1),                  \* driver.get(ppmi_login_webpage)
       I("wait_visible_raise", "login", 1, 8),   \* visible: "Already logged in", return
       I("wait_visible", "login", 1, 1),         \* userEmail
       I("enter_data", "login", 1, 1),
       I("wait_visible", "login", 1, 1),         \* userPassword
       I("enter_data", "login", 1, 1),
       I("wait_visible", "login", 1, 1),         \* button
       I("click_button", "login", 1, 1),         \* Login button
       I("find_invalid_login", "login", 1, 1) >>

\* a menu entry that goes through the hamburger menu whatever the window
MenuEntry_always_hamburger ==
    << I("has_HamburgerMenu", "navigation", 1, 1) >>
    \o ClickUntil("navigation")
    \o ClickUntil("navigation")
    \o ClickUntil("navigation")

\* PPMINavigator.Download and PPMINavigator.Search: the hamburger menu first
\* when it is displayed, then the menu entry
MenuEntry ==
    << I("has_HamburgerMenu", "navigation", 1, 5) >>
    \o ClickUntil("navigation")      \* HamburgerMenu
    \o ClickUntil("navigation")      \* HamburgerMenu_Download / HamburgerMenu_Search
    \o ClickUntil("navigation")      \* the entry itself

\* click_button_chain(["Download", "Study Data", "ALL"])
Chain_Download_StudyData_ALL ==
    MenuEntry
    \o ClickUntil("navigation")      \* Download_StudyData
    \o ClickUntil("navigation")      \* Download_StudyData_ALL: ALL tab
    \o ClickUntil("navigation")      \* Download_StudyData_ALL: ALL checkbox

\* click_button_chain(["Search", "Advanced Image Search (beta)"])
Chain_Search_AdvancedImageSearchbeta ==
    MenuEntry
    \o << I("postcondition", "navigation", 1, 3),
          I("wait_for", "navigation", 1, 1),
          I("click_button", "navigation", -2, -2) >>

download_metadata ==
    << I("validate", "validate", 1, 1),          \* supported_files check
       I("get", "login", 1, 1) >>                \* driver.get(ppmi_main_webpage)
    \o Login
    \o << I("get", "navigation", 1, 1) >>        \* driver.get(ppmi_home_webpage)
    \o Chain_Download_StudyData_ALL
    \o << I("select", "selection", 1, 1),        \* checkbox.click() per file
          I("click_button", "trigger", 1, 1),    \* downloadBtn
          I("poll", "poll", 1, 1),
          I("unzip_metadata", "route", 1, 1) >>

download_3D_T1_info ==
    << I("get", "login", 1, 1) >>
    \o Login
    \o << I("get", "navigation", 1, 1) >>
    \o Chain_Search_AdvancedImageSearchbeta
    \o << I("click_button", "selection", 1, 1),  \* Acquisition_Type.3D
          I("click_button", "selection", 1, 1),  \* Weighting.T1
          I("click_button", "selection", 1, 1),  \* RESET_VISIT.0
          I("click_button", "selection", 1, 1),  \* RESET_STUDY.0
          I("click_button", "selection", 1, 1),  \* Field_Strength
          I("click_button", "selection", 1, 1),  \* Acquisition_Plane
          I("click_button", "selection", 1, 1),  \* advSearchQuery
          I("click_button", "trigger", 1, 1),    \* CSV Download
          I("poll", "poll", 1, 1),
          I("unzip_metadata", "route", 1, 1) >>

download_imaging_data ==
    << I("check_empty", "validate", 1, 1),       \* len(subject_ids) == 0: return
       I("get", "login", 1, 1) >>
    \o Login
    \o << I("get", "navigation", 1, 1) >>
    \o Chain_Search_AdvancedImageSearchbeta
    \o << I("enter_data", "selection", 1, 1),    \* subjectIdText
          I("click_button", "selection", 1, 1) >> \* advSearchQuery
    \o ClickUntil("selection")                   \* Search_AdvancedImageSearchbeta_SelectAll
    \o << I("click_button", "selection", 1, 1),  \* advResultAddCollectId
          I("enter_data", "selection", 1, 1),    \* nameText
          I("click_button", "selection", 1, 1),  \* nameText
          I("postcondition", "selection", 1, 2), \* ..._AddToCollection_OK
          I("ok_click", "selection", -1, 1),
          I("click_button", "selection", 1, 1),  \* export
          I("click_button", "selection", 1, 1),  \* selectAllCheckBox
          I("click_button", "selection", 1, 1),  \* niftiButton / archivedButton
          I("click_button", "selection", 1, 1),  \* simple-download-button
          I("click_button", "trigger", 1, 1),    \* Zip File
          I("click_button", "trigger", 1, 1),    \* Metadata
          I("poll", "poll", 1, 1),
          I("listdir", "route", 1, 1),           \* assert len(downloaded_files) == 3
          I("unzip_imaging_data", "route", 1, 1) >>

\* the statements of login that fill in and send the form
LoginForm ==
    { k \in DOMAIN Login :
        \E j \in 1..k : Login[j].kind = "wait_visible_raise" /\ j < k }

\* PPMIDownloader.init_and_log: self.html.login(self.email, self.password);
\* the statements of the form are a phase of their own
init_and_log ==
    [k \in DOMAIN Login |->
        IF k \in LoginForm /\ Login[k].kind # "find_invalid_login"
        THEN [Login[k] EXCEPT !.phase = "form"]
        ELSE Login[k]]

\* what can be called on a session: a download operation, the login alone,
\* PPMINavigator.Download alone (test_hamburger_menu),
\* click_button_chain(["Download", "Study Data", "ALL"]), or
\* HTMLHelper.unzip_metadata alone, or
\* PPMINavigator.Search_AdvancedImageSearchbeta_SelectAll alone
Entries ==
    Operations \cup {"init_and_log", "Download", "click_button_chain",
                     "unzip_metadata", "Search_AdvancedImageSearchbeta_SelectAll"}

\* the locators and URLs of the navigator actions
HamburgerButton == "ida-menu-hamburger"
MainOptions == "ida-menu-main-options"
DownloadMenu == "ida-menu-option.sub-menu.download"
StudyData == "Study Data"
AllTab == "ygtvlabelel77"
AllCheckbox == "sCatChkBox_312"
SelectAll == "advResultSelectAll"
AddToCollection == "advResultAddCollectId"
studydata_url == "https://ida.loni.usc.edu/pages/access/studyData.jsp"
studydata_url_query == "https://ida.loni.usc.edu/pages/access/studyData.jsp?"

\* what a statement tests or clicks
On(test, element) == [test |-> test, on |-> element]

\* PPMINavigator.Download, statement by statement
DownloadTargets ==
    << On("is_displayed", HamburgerButton),
       On("is_element_active", MainOptions),     \* HamburgerMenu
       On("click", HamburgerButton),
       On("is_element_active", DownloadMenu),    \* HamburgerMenu_Download
       On("click", DownloadMenu),
       On("is_element_active", DownloadMenu),    \* Download
       On("click", DownloadMenu) >>

\* Download, Download_StudyData, Download_StudyData_ALL
ChainTargets ==
    DownloadTargets
    \o << On("startswith", studydata_url),       \* Download_StudyData
          On("click", StudyData),
          On("equals", studydata_url),           \* Download_StudyData_ALL
          On("click", AllTab),
          On("startswith", studydata_url),
          On("click", AllCheckbox) >>

\* Search_AdvancedImageSearchbeta_SelectAll
SelectAllTargets ==
    << On("is_selected_and_enabled", SelectAll),
       On("click", SelectAll) >>

Targets(o) ==
    CASE o = "Download" -> DownloadTargets
      [] o = "click_button_chain" -> ChainTargets
      [] o = "Search_AdvancedImageSearchbeta_SelectAll" -> SelectAllTargets
      [] OTHER -> << >>

\* str.startswith on the URLs of the model
startswith(string, prefix) ==
    \/ string = prefix
    \/ string = studydata_url_query /\ prefix = studydata_url

Program(o) ==
    CASE o = "download_metadata" -> download_metadata
      [] o = "init_and_log" -> init_and_log
      [] o = "Download" -> MenuEntry
      [] o = "click_button_chain" -> Chain_Download_StudyData_ALL
      [] o = "unzip_metadata" -> << I("unzip_metadata", "route", 1, 1) >>
      [] o = "Search_AdvancedImageSearchbeta_SelectAll" -> ClickUntil("selection")
      [] o = "download_3D_T1_info" -> download_3D_T1_info
      [] o = "download_imaging_data" -> download_imaging_data
      [] OTHER -> << >>

-----------------------------------------------------------------------------
(* Running an operation: one action per kind of instruction.  What the
   portal answers (an element is visible, a postcondition holds, a direct
   driver command raises) is chosen by the environment. *)

Instr == Program(op)[pc]

Running ==
    /\ op \in Entries
    /\ error = NoError
    /\ ~returned
    /\ rpc = "idle"
    /\ pc \in 1..Len(Program(op))

At(kind) == Running /\ Instr.kind = kind

\* the phases entered so far; the local checks before the login are no phase
Log(phase) ==
    IF phase = "validate" \/ (steps # <<>> /\ steps[Len(steps)] = phase)
    THEN steps
    ELSE Append(steps, phase)

\* an instruction that touches neither the helper frame, the poller, the
\* router nor the directory
Local ==
    /\ steps' = Log(Instr.phase)
    /\ UNCHANGED <<offlineVars, portalVars, pageVars, lifeVars, op, file_ids, timeout, files, triggers>>
    /\ UNCHANGED helperVars
    /\ UNCHANGED pollVars
    /\ UNCHANGED routeVars

\* the names a caller can ask for: a guessed name with a checkbox, the real
\* name of it, a real name whose guessed name has no checkbox, and a name
\* that is in neither mapping
Names == {"Demographics", "Demographics.csv", "Old.csv", "Unknown"}

\* self.file_ids: guessed name -> id of its checkbox
self_file_ids == [n \in {"Demographics"} |-> "sCatChkBox_1"]

\* self.real_to_guessed: real name -> guessed name
real_to_guessed ==
    [n \in {"Demographics.csv", "Old.csv"} |->
        IF n = "Demographics.csv" THEN "Demographics" ELSE "Old"]

\* every `file_ids` list download_metadata is called with
Requests == UNION { [1..n -> Names] : n \in 0..MaxIds }

\* set(self.file_ids.keys()) | set(self.real_to_guessed.keys())
supported_files == DOMAIN self_file_ids \cup DOMAIN real_to_guessed

\* a validation that looks at file_ids[0] only
Unsupported_first_only(ids) ==
    { k \in DOMAIN ids : k = 1 /\ ids[k] \notin supported_files }

\* the positions the loop `for file_name in file_ids` stops at
Unsupported(ids) == { k \in DOMAIN ids : ids[k] \notin supported_files }

\* download_metadata: `if file_name not in supported_files: raise Exception`
validate ==
    /\ At("validate")
    /\ IF Unsupported(file_ids) = {}
       THEN pc' = pc + Instr.succ /\ UNCHANGED error
       ELSE error' = Raise("Exception") /\ UNCHANGED pc
    /\ Local
    /\ UNCHANGED <<returned, driver, tempdir, screenshots>>

\* download_imaging_data: `if len(subject_ids) == 0: return`
check_empty ==
    /\ At("check_empty")
    /\ \E empty \in BOOLEAN :
         IF empty
         THEN returned' = TRUE /\ UNCHANGED pc
         ELSE pc' = pc + Instr.succ /\ UNCHANGED returned
    /\ Local
    /\ UNCHANGED <<error, driver, tempdir, screenshots>>

\* self.driver.get(url): a direct driver command, nothing catches what it raises
get ==
    /\ At("get")
    /\ \E ok \in BOOLEAN :
         IF ok
         THEN pc' = pc + Instr.succ /\ UNCHANGED error
         ELSE error' = Raise("WebDriverException") /\ UNCHANGED pc
    /\ Local
    /\ UNCHANGED <<returned, driver, tempdir, screenshots>>

\* validate_cookie_policy: the idaCookiePolicy cookie is set, or the accept
\* button is clicked
get_cookie ==
    /\ At("get_cookie")
    /\ \E accepted \in BOOLEAN :
         pc' = pc + (IF accepted THEN Instr.alt ELSE Instr.succ)
    /\ Local
    /\ UNCHANGED <<error, returned, driver, tempdir, screenshots>>

\* wait_for_element_to_be_visible(..., raise_exception=True) inside login's
\* try ... except (NoSuchElementException, TimeoutException): pass
\* what the wait for the user menu (ida-menu-option.sub-menu.user) ends in:
\* a regular portal shows the menu to a session that is logged in, and to no
\* other
UserMenuSeen ==
    CASE portal = "regular" /\ logged_in -> {"visible", "WebDriverException"}
      [] portal = "regular" /\ ~logged_in -> {"TimeoutException", "WebDriverException"}
      [] OTHER -> {"visible", "TimeoutException", "WebDriverException"}

wait_visible_raise ==
    /\ At("wait_visible_raise")
    /\ \E seen \in UserMenuSeen :
         CASE seen = "visible" -> pc' = pc + Instr.alt /\ UNCHANGED error
           [] seen = "TimeoutException" -> pc' = pc + Instr.succ /\ UNCHANGED error
           [] OTHER -> error' = Raise(seen) /\ UNCHANGED pc
    /\ Local
    /\ UNCHANGED <<returned, driver, tempdir, screenshots>>

\* wait_for_element_to_be_visible(...) with raise_exception=False
wait_for_element_to_be_visible ==
    /\ At("wait_visible")
    /\ \E seen \in {"visible", "TimeoutException", "Exception"} :
         CASE seen = "visible" ->
                /\ pc' = pc + Instr.succ
                /\ UNCHANGED <<error, driver, screenshots>>
           [] seen = "TimeoutException" ->
                /\ take_screenshot_and_quit("wait for element to be visible times out")
                /\ UNCHANGED pc
           [] OTHER ->
                /\ take_screenshot_and_quit("Unknown exception")
                /\ UNCHANGED pc
    /\ Local
    /\ UNCHANGED <<returned, tempdir>>

\* the operation calls click_button / enter_data with the default trials=TRIALS
FlowFails == (0..MaxFails) \cup {TRIALS + 1}

Call ==
    /\ Running
    /\ Instr.kind \in {"click_button", "enter_data"}
    /\ helper' = Instr.kind
    /\ trials' = TRIALS
    /\ budget' = TRIALS
    /\ \E k \in FlowFails, kind \in Kinds :
         /\ k = 0 => kind = "TimeoutException"
         /\ kind \in PermanentKinds => k = 1
         /\ failures' = k
         /\ opFails' = k
         /\ opKind' = kind
    /\ attempts' = 0
    /\ elapsed' = 0
    /\ rpc' = "frame"
    /\ steps' = Log(Instr.phase)
    /\ UNCHANGED <<offlineVars, portalVars, pageVars, lifeVars, op, file_ids, pc, error, returned, files, timeout, triggers>>
    /\ UNCHANGED sessionVars
    /\ UNCHANGED pollVars
    /\ UNCHANGED routeVars

\* the helper returned (its frames and their arguments are gone): the next
\* statement of the operation
\* what a click on an element does to the page of a regular portal: the
\* hamburger button opens or closes the main options, the Download entry
\* makes Download the active entry (and closes the hamburger menu), the
\* Study Data link and the ALL tab load the study-data page, under its bare
\* URL or with a query, the select-all checkbox changes its state
\* checkbox.click(): the checkbox changes its state
click_checkbox(S, id) == IF id \in S THEN S \ {id} ELSE S \cup {id}

click(element) ==
    /\ clicked' = clicked \cup {element}
    /\ UNCHANGED <<hamburger, enabled>>
    /\ CASE element = HamburgerButton ->
              /\ active' = IF MainOptions \in active
                            THEN active \ {MainOptions}
                            ELSE active \cup {MainOptions}
              /\ UNCHANGED <<current_url, selected>>
         [] element = DownloadMenu ->
              /\ active' = {DownloadMenu}
              /\ UNCHANGED <<current_url, selected>>
         [] element \in {StudyData, AllTab} ->
              /\ current_url' \in {studydata_url, studydata_url_query}
              /\ UNCHANGED <<active, selected>>
         [] element = SelectAll ->
              /\ selected' = click_checkbox(selected, element)
              /\ UNCHANGED <<active, current_url>>
         [] OTHER -> UNCHANGED <<active, current_url, selected>>

Return ==
    /\ op \in Entries
    /\ IF portal = "regular" /\ pc \in DOMAIN Targets(op)
       THEN click(Targets(op)[pc].on)
       ELSE UNCHANGED pageVars
    /\ error = NoError
    /\ rpc = "returned"
    /\ rpc' = "idle"
    /\ pc' = pc + Instr.succ
    /\ triggers' = IF Instr.phase = "trigger" THEN triggers + 1 ELSE triggers
    /\ helper' = "none" /\ budget' = 0 /\ trials' = 0
    /\ failures' = 0 /\ opFails' = 0 /\ opKind' = "TimeoutException"
    /\ attempts' = 0 /\ elapsed' = 0
    /\ UNCHANGED <<offlineVars, portalVars, lifeVars, op, file_ids, error, returned,
                   steps, files, timeout>>
    /\ UNCHANGED sessionVars
    /\ UNCHANGED pollVars
    /\ UNCHANGED routeVars

\* what find_element(By.CLASS_NAME, "register-input-error-msg.invalid-login")
\* finds at the moment it is called: it does not wait
InvalidLoginFound == IF portal = "regular" THEN {invalid_login} ELSE BOOLEAN

\* login: the invalid-login message is found: logger.error("Login Failed")
find_invalid_login ==
    /\ At("find_invalid_login")
    /\ \E invalid \in InvalidLoginFound :
         IF invalid
         THEN error' = logger_error("Login Failed") /\ UNCHANGED pc
         ELSE pc' = pc + Instr.succ /\ UNCHANGED error
    /\ Local
    /\ UNCHANGED <<returned, driver, tempdir, screenshots>>

\* find_element(By.CLASS_NAME, "ida-menu-hamburger").is_displayed()
HamburgerDisplayed == IF portal = "regular" THEN {hamburger} ELSE BOOLEAN

has_HamburgerMenu ==
    /\ At("has_HamburgerMenu")
    /\ \E displayed \in HamburgerDisplayed :
         pc' = pc + (IF displayed THEN Instr.succ ELSE Instr.alt)
    /\ Local
    /\ UNCHANGED <<error, returned, driver, tempdir, screenshots>>

\* what postcondition() returns: on a regular portal what the page shows,
\* which changes by clicks only and within the time the test waits
PostconditionMet ==
    IF portal = "regular" /\ pc \in DOMAIN Targets(op)
    THEN LET t == Targets(op)[pc] IN
         CASE t.test = "is_element_active" -> {t.on \in active}
           [] t.test = "startswith" -> {startswith(current_url, t.on)}
           [] t.test = "equals" -> {current_url = t.on}
           [] t.test = "is_selected_and_enabled" ->
                {t.on \in selected /\ AddToCollection \in enabled}
    ELSE BOOLEAN

\* the test of `while not postcondition():`
postcondition ==
    /\ At("postcondition")
    /\ \E met \in PostconditionMet :
         pc' = pc + (IF met THEN Instr.alt ELSE Instr.succ)
    /\ Local
    /\ UNCHANGED <<error, returned, driver, tempdir, screenshots>>

\* Search_AdvancedImageSearchbeta: wait_for(presence of advResultTabId) only
\* chooses the text of the button to click
wait_for ==
    /\ At("wait_for")
    /\ pc' = pc + Instr.succ
    /\ Local
    /\ UNCHANGED <<error, returned, driver, tempdir, screenshots>>

\* download_metadata: checkbox_id = self.file_ids.get(file_name, None); if it
\* is None: guess = self.real_to_guessed[file_name] and
\* checkbox_id = self.file_ids.get(guess), which is None again when the
\* guessed name has no checkbox
checkbox_id(file_name) ==
    IF file_name \in DOMAIN self_file_ids
    THEN Str(self_file_ids[file_name])
    ELSE LET guessed == real_to_guessed[file_name] IN
         IF guessed \in DOMAIN self_file_ids
         THEN Str(self_file_ids[guessed])
         ELSE None

\* what self.driver.find_elements(By.ID, checkbox_id)[0:2] and the clicks on
\* its elements end in.  With None for the id the driver either finds no
\* element (the locator becomes the selector [id="None"]) or rejects the
\* argument; neither is caught.  The study-data page of a regular portal has
\* one checkbox for every id of self.file_ids.
find_elements(id) ==
    IF id.type = "None"
    THEN {"no element", "WebDriverException"}
    ELSE IF portal = "regular"
    THEN {"clicked", "WebDriverException"}
    ELSE {"clicked", "no element", "WebDriverException"}

RECURSIVE clicks(_, _, _, _)
\* the checkboxes selected after the first n iterations of the loop, those
\* whose lookup found the checkbox
clicks(S, ids, outcome, n) ==
    IF n = 0 THEN S
    ELSE LET before == clicks(S, ids, outcome, n - 1)
         IN  IF outcome[n] = "clicked"
             THEN click_checkbox(before, checkbox_id(ids[n]).value)
             ELSE before

\* the iterations made: all of them, or those before the first that raises
Iterations(outcome) ==
    LET raising == { k \in DOMAIN outcome : outcome[k] = "WebDriverException" }
    IN  IF raising = {} THEN Len(outcome)
        ELSE (CHOOSE k \in raising : \A j \in raising : k <= j) - 1

\* download_metadata: find_elements(By.ID, checkbox_id) and checkbox.click()
\* for every requested file, directly on the driver; this loop is the last
\* reader of file_ids
select ==
    /\ At("select")
    /\ \E outcome \in [DOMAIN file_ids ->
                         {"clicked", "no element", "WebDriverException"}] :
         /\ \A k \in DOMAIN file_ids :
                outcome[k] \in find_elements(checkbox_id(file_ids[k]))
         /\ IF \A k \in DOMAIN file_ids : outcome[k] # "WebDriverException"
            THEN pc' = pc + Instr.succ /\ UNCHANGED error
            ELSE error' = Raise("WebDriverException") /\ UNCHANGED pc
         /\ IF portal = "regular"
            THEN selected' = clicks(selected, file_ids, outcome, Iterations(outcome))
            ELSE UNCHANGED selected
    /\ file_ids' = << >>
    /\ steps' = Log(Instr.phase)
    /\ UNCHANGED <<hamburger, active, current_url, clicked, enabled>>
    /\ UNCHANGED <<offlineVars, portalVars, lifeVars, op, timeout, files, triggers>>
    /\ UNCHANGED helperVars
    /\ UNCHANGED pollVars
    /\ UNCHANGED routeVars
    /\ UNCHANGED <<returned, driver, tempdir, screenshots>>

\* Search_AdvancedImageSearchbeta_AddToCollection_OK: ok.click() directly on
\* the element; AttributeError: continue, StaleElementReferenceException: break
ok_click ==
    /\ At("ok_click")
    /\ \E out \in {"clicked", "AttributeError", "StaleElementReferenceException",
                   "WebDriverException"} :
         CASE out \in {"clicked", "AttributeError"} ->
                pc' = pc + Instr.succ /\ UNCHANGED error
           [] out = "StaleElementReferenceException" ->
                pc' = pc + Instr.alt /\ UNCHANGED error
           [] OTHER -> error' = Raise(out) /\ UNCHANGED pc
    /\ Local
    /\ UNCHANGED <<returned, driver, tempdir, screenshots>>

-----------------------------------------------------------------------------
(* The session's teardown, the poller wait and the file router.            *)

\* quit() without its last statement
QuitOutcomes == {"done", "OSError", "WebDriverException"}

\* what quit() raises, if anything
QuitError(outcome) == IF outcome = "done" THEN NoError ELSE Raise(outcome)

\* quit() without its last statement, self.driver.quit()
quit_without_driver_quit(outcome) ==
    /\ outcome \in QuitOutcomes
    /\ IF outcome = "OSError"
       THEN /\ files' \in SUBSET files
            /\ UNCHANGED <<tempdir, driver>>
       ELSE /\ tempdir' = "removed"
            /\ files' = {}
            /\ UNCHANGED driver

\* PPMIDownloader.quit: tempdir.cleanup(); driver.delete_all_cookies();
\* driver.quit().  A statement that raises ends quit(): cleanup() raises
\* OSError when the browser writes into the directory while it is removed
\* (some of the files can be gone by then), delete_all_cookies() raises
\* WebDriverException.
quit(outcome) ==
    /\ outcome \in QuitOutcomes
    /\ CASE outcome = "OSError" ->
              /\ files' \in SUBSET files
              /\ UNCHANGED <<tempdir, driver>>
         [] outcome = "WebDriverException" ->
              /\ tempdir' = "removed"
              /\ files' = {}
              /\ UNCHANGED driver
         [] OTHER ->
              /\ tempdir' = "removed"
              /\ files' = {}
              /\ driver' = "closed"

\* WebDriverWait.until: `if time.monotonic() > end_time: break`
Expired(c, t) == c > t

\* one iteration of WebDriverWait(self.driver, timeout).until(download_complete):
\* call the predicate, return its true value, else sleep one poll interval and
\* raise TimeoutException once the timeout is past
WebDriverWait_until ==
    /\ At("poll")
    /\ pollResult \in {"none", "polling"}
    /\ \E downloaded \in Orderings(files) :
         LET r == download_complete(op, downloaded) IN
         /\ lastListing' = downloaded
         /\ lastResult' = r
         /\ CASE r = "True" ->
                   /\ pollResult' = "complete"
                   /\ pc' = pc + Instr.succ
                   /\ UNCHANGED <<clock, error>>
              [] r = "AssertionError" ->
                   /\ error' = Raise("AssertionError")
                   /\ pollResult' = "polling"
                   /\ UNCHANGED <<pc, clock>>
              [] OTHER ->
                   /\ clock' = clock + 1
                   /\ pollResult' = IF Expired(clock + 1, timeout)
                                    THEN "TimeoutException" ELSE "polling"
                   /\ UNCHANGED <<pc, error>>
    /\ steps' = Log("poll")
    /\ UNCHANGED <<offlineVars, portalVars, pageVars, lifeVars, op, file_ids, returned, files, timeout, triggers>>
    /\ UNCHANGED sessionVars
    /\ UNCHANGED helperVars
    /\ UNCHANGED routeVars

\* what each operation does after self.quit() in `except TimeoutException`
TimeoutError(o) ==
    CASE o = "download_metadata" -> Raise("TimeoutException")
      [] o = "download_3D_T1_info" ->
           logger_error("Unable to download T1 3D information")
      [] o = "download_imaging_data" ->
           logger_error("Timeout when downloading imaging data")

\* `except TimeoutException: self.quit()` and then raise e / logger.error(...)
download_timeout ==
    /\ At("poll")
    /\ pollResult = "TimeoutException"
    /\ \E outcome \in QuitOutcomes :
         /\ quit(outcome)
         /\ IF QuitError(outcome) # NoError
            THEN error' = QuitError(outcome) /\ UNCHANGED pc
            ELSE /\ error' = TimeoutError(op)
                 /\ pc' = IF TimeoutError(op) = NoError
                          THEN pc + Instr.succ ELSE pc
    /\ UNCHANGED <<offlineVars, portalVars, pageVars, lifeVars, op, file_ids, returned, steps, timeout, triggers, screenshots>>
    /\ UNCHANGED helperVars
    /\ UNCHANGED pollVars
    /\ UNCHANGED routeVars

\* zip_ref.namelist() of the archive the portal sends
namelist(f) == << <<"a", ".csv">>, <<"b", ".xml">> >>

\* the members extractall writes
ZipMembers(f) == Range(namelist(f))

\* s[:2]
FirstTwo(s) == SubSeq(s, 1, IF Len(s) < 2 THEN Len(s) ELSE 2)

\* unzip_file with shutil.copy in place of shutil.move
unzip_file_copy(f) ==
    IF EndsWith(f, {".zip"})
    THEN /\ dest' = dest \cup ZipMembers(f)
         /\ logged' = FirstTwo(namelist(f))
         /\ UNCHANGED files
    ELSE /\ dest' = dest \cup {f}
         /\ logged' = <<f>>
         /\ UNCHANGED files

\* HTMLHelper.unzip_file: extractall(destination_dir) of a .zip (the archive
\* stays in tempdir), shutil.move of anything else; the names are logged and
\* nothing is returned
unzip_file(f) ==
    IF EndsWith(f, {".zip"})
    THEN /\ dest' = dest \cup ZipMembers(f)
         /\ logged' = FirstTwo(namelist(f))
         /\ UNCHANGED files
    ELSE /\ dest' = dest \cup {f}
         /\ files' = files \ {f}
         /\ logged' = <<f>>

\* a router that empties the destination before it raises
route_failure_rollback(e) ==
    /\ error' = Raise(e)
    /\ dest' = {}
    /\ UNCHANGED <<pc, files, logged, result>>

\* an assert of the router fails: the exception leaves the router as it is
route_failure(e) ==
    /\ error' = Raise(e)
    /\ UNCHANGED <<pc, dest, files, logged, result>>

\* download_imaging_data: downloaded_files = os.listdir(...); assert len == 3
listdir ==
    /\ At("listdir")
    /\ \E downloaded \in Orderings(files) :
         /\ downloaded_files' = downloaded
         /\ IF Len(downloaded) = ExpectedImagingFiles
            THEN pc' = pc + Instr.succ /\ UNCHANGED error
            ELSE error' = Raise("AssertionError") /\ UNCHANGED pc
    /\ steps' = Log("route")
    /\ UNCHANGED <<offlineVars, portalVars, pageVars, lifeVars, op, file_ids, returned, files, timeout, triggers, routed, i, dest,
                   result, logged>>
    /\ UNCHANGED sessionVars
    /\ UNCHANGED helperVars
    /\ UNCHANGED pollVars

\* a test that takes the temporary name of a download as well
metadata_extension_with_tmp == {".zip", ".csv", ".tmp"}

\* unzip_metadata: file_name.endswith((".zip", ".csv"))
metadata_extension == {".zip", ".csv"}

\* HTMLHelper.unzip_metadata: one iteration of its while loop, and what
\* follows the loop when it ends; it returns file_name
unzip_metadata ==
    /\ At("unzip_metadata")
    /\ routed' = TRUE
    /\ steps' = Log("route")
    /\ \E downloaded \in Orderings(files) :
         IF Len(downloaded) # 1
         THEN /\ route_failure("AssertionError")
              /\ UNCHANGED i
         ELSE IF EndsWith(downloaded[1], metadata_extension)
         THEN /\ unzip_file(downloaded[1])
              /\ result' = Str(downloaded[1])
              /\ pc' = pc + Instr.succ
              /\ UNCHANGED <<i, error>>
         ELSE IF i + 1 < UnzipMetadataChecks
         THEN /\ i' = i + 1
              /\ UNCHANGED <<pc, error, dest, files, logged, result>>
         ELSE /\ i' = i + 1
              /\ route_failure("AssertionError")
    /\ UNCHANGED <<offlineVars, portalVars, pageVars, lifeVars, op, file_ids, returned, timeout, triggers, downloaded_files>>
    /\ UNCHANGED sessionVars
    /\ UNCHANGED helperVars
    /\ UNCHANGED pollVars

\* every suffix a name of the model can have
accepted_extension_any == {".zip", ".csv", ".dcm", ".xml", ".tmp", ".crdownload"}

\* unzip_imaging_data: accepted_extension
accepted_extension == {".zip", ".csv", ".dcm", ".xml"}

\* HTMLHelper.unzip_imaging_data: one iteration of its for loop, and the
\* `return downloaded_files` after it
unzip_imaging_data ==
    /\ At("unzip_imaging_data")
    /\ routed' = TRUE
    /\ steps' = Log("route")
    /\ IF i = Len(downloaded_files)
       THEN /\ pc' = pc + Instr.succ
            /\ result' = List(downloaded_files)
            /\ UNCHANGED <<i, error, dest, files, logged>>
       ELSE LET f == downloaded_files[i + 1] IN
            IF ~EndsWith(f, accepted_extension)
            THEN /\ route_failure("AssertionError")
                 /\ UNCHANGED i
            ELSE IF f \notin files
            THEN /\ route_failure("FileNotFoundError")
                 /\ UNCHANGED i
            ELSE /\ unzip_file(f)
                 /\ i' = i + 1
                 /\ UNCHANGED <<pc, error, result>>
    /\ UNCHANGED <<offlineVars, portalVars, pageVars, lifeVars, op, file_ids, returned, timeout, triggers, downloaded_files>>
    /\ UNCHANGED sessionVars
    /\ UNCHANGED helperVars
    /\ UNCHANGED pollVars

\* the name a download gets when the browser finishes it
Renamed(f) ==
    CASE f = csvPartial -> csvFile
      [] f = tmpFile -> csvFile
      [] OTHER -> f

\* a download was triggered and the router has not yet taken its list of files
Downloading ==
    /\ op \in Operations \cup {"unzip_metadata"}
    /\ error = NoError
    /\ ~returned
    /\ triggers >= 1
    /\ tempdir = "exists"
    /\ pc \in 1..Len(Program(op))
    /\ Instr.kind # "unzip_imaging_data"

browserFrame ==
    /\ UNCHANGED <<offlineVars, portalVars, pageVars, lifeVars, op, file_ids, pc, error, returned, steps, timeout, triggers>>
    /\ UNCHANGED sessionVars
    /\ UNCHANGED helperVars
    /\ UNCHANGED pollVars
    /\ UNCHANGED routeVars

\* the browser creates a file of a download that was triggered
BrowserCreates ==
    /\ Downloading
    /\ Cardinality(files) < MaxFiles
    /\ \E f \in FileNames \ files : files' = files \cup {f}
    /\ browserFrame

\* the browser finishes a download and renames its file
BrowserRenames ==
    /\ Downloading
    /\ \E f \in files :
         /\ Renamed(f) # f
         /\ Renamed(f) \notin files
         /\ files' = (files \ {f}) \cup {Renamed(f)}
    /\ browserFrame

\* an operation that ends with self.quit()
Finish_with_quit ==
    /\ op \in Operations
    /\ error = NoError
    /\ ~returned
    /\ rpc = "idle"
    /\ pc = Len(Program(op)) + 1
    /\ returned' = TRUE
    /\ quit("done")
    /\ UNCHANGED <<offlineVars, portalVars, pageVars, lifeVars, op, file_ids, pc, error, steps, timeout, triggers, screenshots>>
    /\ UNCHANGED helperVars
    /\ UNCHANGED pollVars
    /\ UNCHANGED routeVars

\* the end of the operation's body
Finish ==
    /\ op \in Entries
    /\ error = NoError
    /\ ~returned
    /\ rpc = "idle"
    /\ pc = Len(Program(op)) + 1
    /\ returned' = TRUE
    /\ UNCHANGED <<offlineVars, portalVars, pageVars, lifeVars, op, file_ids, pc, error, steps, files, timeout, triggers>>
    /\ UNCHANGED sessionVars
    /\ UNCHANGED helperVars
    /\ UNCHANGED pollVars
    /\ UNCHANGED routeVars

-----------------------------------------------------------------------------
\* PPMIDownloader.__init__: a fresh temporary directory and an open driver;
\* then one download operation is called with a timeout
Init ==
    /\ op \in Operations /\ pc = 1
    /\ file_ids \in (IF op = "download_metadata" THEN Requests ELSE { << >> })
    /\ error = NoError /\ returned = FALSE /\ steps = << >>
    /\ driver = "open" /\ tempdir = "exists" /\ files = {} /\ dest = {}
    /\ helper = "none" /\ budget = 0 /\ trials = 0
    /\ failures = 0 /\ opFails = 0 /\ opKind = "TimeoutException"
    /\ attempts = 0 /\ rpc = "idle" /\ elapsed = 0
    /\ clock = 0 /\ timeout \in 1..MaxTimeout /\ pollResult = "none"
    /\ lastListing = << >> /\ lastResult = "none"
    /\ triggers = 0 /\ screenshots = 0
    /\ routed = FALSE /\ i = 0 /\ downloaded_files = << >>
    /\ result = None /\ logged = << >>
    /\ NoOffline
    /\ ArbitraryPortal

Next ==
    \/ validate \/ check_empty \/ get \/ get_cookie
    \/ wait_visible_raise \/ wait_for_element_to_be_visible
    \/ Call \/ click_button \/ enter_data \/ Return
    \/ find_invalid_login \/ has_HamburgerMenu \/ postcondition \/ wait_for
    \/ select \/ ok_click
    \/ WebDriverWait_until \/ download_timeout
    \/ listdir \/ unzip_metadata \/ unzip_imaging_data
    \/ BrowserCreates \/ BrowserRenames \/ Finish

Spec == Init /\ [][Next]_vars

\* the interpreter runs the operation on: a statement that can be executed is
\* executed
SpecFair == Spec /\ WF_vars(Next)

-----------------------------------------------------------------------------
(* download_metadata on a regular portal, called on a new PPMIDownloader or
   on one that is logged in; no checkbox of the study-data page is selected
   when the page is loaded. *)

InitSelect ==
    /\ op = "download_metadata" /\ pc = 1
    /\ file_ids \in Requests
    /\ error = NoError /\ returned = FALSE /\ steps = << >>
    /\ driver = "open" /\ tempdir = "exists" /\ files = {} /\ dest = {}
    /\ helper = "none" /\ budget = 0 /\ trials = 0
    /\ failures = 0 /\ opFails = 0 /\ opKind = "TimeoutException"
    /\ attempts = 0 /\ rpc = "idle" /\ elapsed = 0
    /\ clock = 0 /\ timeout = 1 /\ pollResult = "none"
    /\ lastListing = << >> /\ lastResult = "none"
    /\ triggers = 0 /\ screenshots = 0
    /\ routed = FALSE /\ i = 0 /\ downloaded_files = << >>
    /\ result = None /\ logged = << >>
    /\ NoOffline
    /\ NewDownloader
    /\ portal = "regular"
    /\ logged_in \in BOOLEAN /\ was_logged_in = logged_in
    /\ credentials = "valid" /\ invalid_login = FALSE
    /\ hamburger = FALSE /\ active = {}
    /\ current_url = "home" /\ clicked = {}
    /\ selected = {} /\ enabled = {}

NextSelect ==
    \/ validate \/ get \/ get_cookie
    \/ wait_visible_raise \/ wait_for_element_to_be_visible
    \/ Call \/ click_button \/ enter_data \/ Return
    \/ find_invalid_login \/ has_HamburgerMenu \/ postcondition
    \/ select
    \/ WebDriverWait_until \/ download_timeout \/ unzip_metadata
    \/ BrowserCreates \/ BrowserRenames \/ Finish

SpecSelect == InitSelect /\ [][NextSelect]_vars

-----------------------------------------------------------------------------
(* Search_AdvancedImageSearchbeta_SelectAll on a regular portal.  The page
   follows the select-all checkbox on its own time: some time after the
   checkbox was selected it enables the add-to-collection button, some time
   after it was unselected it disables it. *)

\* the add-to-collection button as the state of the checkbox wants it
Settled == (AddToCollection \in enabled) <=> (SelectAll \in selected)

\* the page catches up with the checkbox; a click that the helper has made
\* is on the page before anything else happens
portal_updates ==
    /\ portal = "regular"
    /\ op = "Search_AdvancedImageSearchbeta_SelectAll"
    /\ rpc # "returned"
    /\ ~Settled
    /\ enabled' = IF SelectAll \in selected
                  THEN enabled \cup {AddToCollection}
                  ELSE enabled \ {AddToCollection}
    /\ UNCHANGED <<hamburger, active, current_url, clicked, selected>>
    /\ UNCHANGED sessionState
    /\ UNCHANGED offlineVars
    /\ UNCHANGED portalVars
    /\ UNCHANGED lifeVars

\* the results of a search are displayed, nothing is selected
InitSelectAll ==
    /\ op = "Search_AdvancedImageSearchbeta_SelectAll" /\ pc = 1
    /\ file_ids = << >>
    /\ error = NoError /\ returned = FALSE /\ steps = << >>
    /\ driver = "open" /\ tempdir = "exists" /\ files = {} /\ dest = {}
    /\ helper = "none" /\ budget = 0 /\ trials = 0
    /\ failures = 0 /\ opFails = 0 /\ opKind = "TimeoutException"
    /\ attempts = 0 /\ rpc = "idle" /\ elapsed = 0
    /\ clock = 0 /\ timeout = 1 /\ pollResult = "none"
    /\ lastListing = << >> /\ lastResult = "none"
    /\ triggers = 0 /\ screenshots = 0
    /\ routed = FALSE /\ i = 0 /\ downloaded_files = << >>
    /\ result = None /\ logged = << >>
    /\ NoOffline
    /\ NewDownloader
    /\ portal = "regular"
    /\ logged_in = TRUE /\ was_logged_in = TRUE
    /\ credentials = "valid" /\ invalid_login = FALSE
    /\ hamburger = FALSE /\ active = {}
    /\ current_url = "home" /\ clicked = {}
    /\ selected = {} /\ enabled = {}

NextSelectAll ==
    \/ postcondition \/ Call \/ click_button \/ Return \/ Finish
    \/ portal_updates

SpecSelectAll == InitSelectAll /\ [][NextSelectAll]_vars

-----------------------------------------------------------------------------
(* The life of a PPMIDownloader: after an operation has returned another one
   can be called on the same object (nothing of __init__ is run again: the
   temporary directory and the driver are those of the first one); once an
   operation has ended, by returning or by an exception, the user can call
   quit(), and when the object is collected __del__ calls quit(). *)

\* an operation is called on a PPMIDownloader whose last one returned
call_again ==
    /\ op \in Operations
    /\ returned /\ error = NoError
    /\ teardown = << >>
    /\ calls < MaxCalls
    /\ calls' = calls + 1
    /\ left' = files
    /\ op' \in Operations
    /\ file_ids' \in (IF op' = "download_metadata" THEN Requests ELSE { << >> })
    /\ timeout' \in 1..MaxTimeout
    /\ pc' = 1 /\ returned' = FALSE /\ steps' = << >>
    /\ clock' = 0 /\ pollResult' = "none"
    /\ lastListing' = << >> /\ lastResult' = "none"
    /\ triggers' = 0
    /\ routed' = FALSE /\ i' = 0 /\ downloaded_files' = << >>
    /\ result' = None /\ logged' = << >>
    /\ UNCHANGED <<error, files, dest, teardown, stale>>
    /\ UNCHANGED sessionVars
    /\ UNCHANGED helperVars
    /\ UNCHANGED offlineVars
    /\ UNCHANGED portalVars
    /\ UNCHANGED pageVars

\* one call of quit() and the exception that left it
Quit(by, raised) == [by |-> by, raised |-> raised]

\* the calls of quit() made by the user
UserQuits == { k \in DOMAIN teardown : teardown[k].by = "quit" }

\* the browser can still be writing a download into the directory
Racing == triggers >= 1 /\ pollResult # "complete" /\ driver = "open"

\* PPMIDownloader.quit called on a PPMIDownloader whose operation has ended.
\* With the driver open it is quit(outcome); with the driver closed
\* tempdir.cleanup() removes what is left (it does nothing the second time)
\* and delete_all_cookies() is sent to a driver that is gone: it raises, and
\* driver.quit() is not reached
quit_called(by) ==
    /\ op \in Operations
    /\ returned \/ error # NoError
    /\ IF driver = "open"
       THEN /\ \E outcome \in QuitOutcomes :
                 /\ outcome = "OSError" => Racing
                 /\ quit(outcome)
                 /\ teardown' = Append(teardown, Quit(by, QuitError(outcome).type))
            /\ UNCHANGED stale
       ELSE /\ tempdir' = "removed"
            /\ files' = {}
            /\ stale' = TRUE
            /\ teardown' = Append(teardown, Quit(by, "MaxRetryError"))
            /\ UNCHANGED driver
    /\ UNCHANGED <<op, file_ids, pc, error, returned, steps, timeout, triggers,
                   screenshots, calls, left>>
    /\ UNCHANGED helperVars
    /\ UNCHANGED pollVars
    /\ UNCHANGED routeVars
    /\ UNCHANGED offlineVars
    /\ UNCHANGED portalVars
    /\ UNCHANGED pageVars

\* ppmi.quit() by the user (the tests end with it)
user_quit ==
    /\ \A k \in DOMAIN teardown : teardown[k].by # "__del__"
    /\ Cardinality(UserQuits) < MaxQuits
    /\ quit_called("quit")

\* PPMIDownloader.__del__: try: self.quit() except Exception: pass, once
del ==
    /\ \A k \in DOMAIN teardown : teardown[k].by # "__del__"
    /\ quit_called("__del__")

NextSession == Next \/ call_again \/ user_quit \/ del

SpecSession == Init /\ [][NextSession]_vars

-----------------------------------------------------------------------------
(* The login on a regular portal: the portal answers a login that was sent
   some time after the click on the Login button, with a session that is
   logged in or with the invalid-login message on the page. *)

\* the Login button was clicked in this call of login()
Submitted ==
    /\ op = "init_and_log"
    /\ \E k \in DOMAIN steps : steps[k] = "form"
    /\ pc > Len(init_and_log) - 1

\* the portal answers the login that was sent
PortalAnswers ==
    /\ portal = "regular"
    /\ Submitted
    /\ ~logged_in /\ ~invalid_login
    /\ IF credentials = "valid"
       THEN logged_in' = TRUE /\ UNCHANGED invalid_login
       ELSE invalid_login' = TRUE /\ UNCHANGED logged_in
    /\ UNCHANGED <<portal, credentials, was_logged_in>>
    /\ UNCHANGED sessionState
    /\ UNCHANGED offlineVars
    /\ UNCHANGED pageVars
    /\ UNCHANGED lifeVars

\* init_and_log() is called again on the same session (test_ppmi_double_login)
login_again ==
    /\ op = "init_and_log"
    /\ returned /\ error = NoError
    /\ returned' = FALSE
    /\ pc' = 1
    /\ steps' = << >>
    /\ was_logged_in' = logged_in
    /\ invalid_login' = FALSE
    /\ UNCHANGED <<portal, logged_in, credentials>>
    /\ UNCHANGED <<op, file_ids, error, files, timeout, triggers>>
    /\ UNCHANGED sessionVars
    /\ UNCHANGED helperVars
    /\ UNCHANGED pollVars
    /\ UNCHANGED routeVars
    /\ UNCHANGED offlineVars
    /\ UNCHANGED pageVars
    /\ UNCHANGED lifeVars

\* a regular portal and either a new PPMIDownloader (a new driver, not logged
\* in) on which init_and_log() is called, or a session that is logged in and
\* on the home page, the hamburger menu open or closed when the window is
\* small, on which Download() or the chain to the study data is called
InitPortal ==
    /\ pc = 1 /\ file_ids = << >>
    /\ error = NoError /\ returned = FALSE /\ steps = << >>
    /\ driver = "open" /\ tempdir = "exists" /\ files = {} /\ dest = {}
    /\ helper = "none" /\ budget = 0 /\ trials = 0
    /\ failures = 0 /\ opFails = 0 /\ opKind = "TimeoutException"
    /\ attempts = 0 /\ rpc = "idle" /\ elapsed = 0
    /\ clock = 0 /\ timeout = 1 /\ pollResult = "none"
    /\ lastListing = << >> /\ lastResult = "none"
    /\ triggers = 0 /\ screenshots = 0
    /\ routed = FALSE /\ i = 0 /\ downloaded_files = << >>
    /\ result = None /\ logged = << >>
    /\ NoOffline
    /\ NewDownloader
    /\ portal = "regular"
    /\ invalid_login = FALSE
    /\ clicked = {}
    /\ selected = {} /\ enabled = {}
    /\ current_url = "home"
    /\ \/ /\ op = "init_and_log"
          /\ logged_in = FALSE /\ was_logged_in = FALSE
          /\ credentials \in {"valid", "invalid"}
          /\ hamburger = FALSE /\ active = {}
       \/ /\ op \in {"Download", "click_button_chain"}
          /\ logged_in = TRUE /\ was_logged_in = TRUE
          /\ credentials = "valid"
          /\ hamburger \in BOOLEAN
          /\ active \in SUBSET {MainOptions}

NextPortal ==
    \/ get \/ get_cookie
    \/ wait_visible_raise \/ wait_for_element_to_be_visible
    \/ Call \/ click_button \/ enter_data \/ Return
    \/ find_invalid_login \/ has_HamburgerMenu \/ postcondition \/ Finish
    \/ PortalAnswers \/ login_again

SpecPortal == InitPortal /\ [][NextPortal]_vars

-----------------------------------------------------------------------------
(* HTMLHelper.unzip_metadata called on a directory the browser may still be
   writing to: any set of at most MaxFiles names. *)

Directories == { S \in SUBSET FileNames : Cardinality(S) <= MaxFiles }

InitRoute ==
    /\ op = "unzip_metadata" /\ pc = 1 /\ file_ids = << >>
    /\ files \in Directories
    /\ triggers = 1
    /\ error = NoError /\ returned = FALSE /\ steps = << >>
    /\ driver = "open" /\ tempdir = "exists" /\ dest = {}
    /\ helper = "none" /\ budget = 0 /\ trials = 0
    /\ failures = 0 /\ opFails = 0 /\ opKind = "TimeoutException"
    /\ attempts = 0 /\ rpc = "idle" /\ elapsed = 0
    /\ clock = 0 /\ timeout = 1 /\ pollResult = "none"
    /\ lastListing = << >> /\ lastResult = "none"
    /\ screenshots = 0
    /\ routed = FALSE /\ i = 0 /\ downloaded_files = << >>
    /\ result = None /\ logged = << >>
    /\ NoOffline
    /\ ArbitraryPortal

NextRoute == unzip_metadata \/ BrowserCreates \/ BrowserRenames \/ Finish

SpecRoute == InitRoute /\ [][NextRoute]_vars

-----------------------------------------------------------------------------
(* PPMIDownloader.__set_credentials.  A value is None or a str, a str is
   the sequence of its characters; the configuration file either does not
   exist or holds for each of login and password the text written after
   "login = " / "password = ", or nothing (None: the option, or the whole
   [ppmi] section, is missing). *)

Words == { << >>, <<"s">>, <<"a", "%", "b">>, <<"a", "%", "%", "b">> }

Values == {None} \cup { Str(w) : w \in Words }

ConfigFiles ==
    {Absent} \cup [exists : {TRUE}, login : Values, password : Values]

Environs == [PPMI_LOGIN : Values, PPMI_PASSWORD : Values]

\* `login is None or password is None`
is_None(login, pass) == login.type = "None" \/ pass.type = "None"

RECURSIVE LonePercent(_)
\* BasicInterpolation: the text has a "%" that is not one of a pair "%%"
LonePercent(w) ==
    IF w = << >> THEN FALSE
    ELSE IF Head(w) # "%" THEN LonePercent(Tail(w))
    ELSE IF Len(w) >= 2 /\ w[2] = "%" THEN LonePercent(Tail(Tail(w)))
    ELSE TRUE

RECURSIVE before_get(_)
\* BasicInterpolation.before_get on a text without a lone "%": "%%" is "%"
before_get(w) ==
    IF w = << >> THEN << >>
    ELSE IF Head(w) = "%" THEN <<"%">> \o before_get(Tail(Tail(w)))
    ELSE <<Head(w)>> \o before_get(Tail(w))

\* config.get("ppmi", option): configparser raises when the section or the
\* option is missing, and when the text cannot be interpolated
config_get(option) ==
    IF config_file[option].type = "None" THEN Raise("NoOptionError")
    ELSE IF LonePercent(config_file[option].value)
    THEN Raise("InterpolationSyntaxError")
    ELSE NoError

\* what config.get("ppmi", option) returns when it raises nothing
config_value(option) ==
    IF config_file[option].type = "None" \/ config_get(option) # NoError
    THEN config_file[option]
    ELSE Str(before_get(config_file[option].value))

\* config.set("ppmi", option, value): BasicInterpolation.before_set raises
\* ValueError on a value with a lone "%"
config_set(value) ==
    IF LonePercent(value.value) THEN Raise("ValueError") ELSE NoError

\* what input() and getpass.getpass() return
Prompted == [login |-> Str(<<"t">>), password |-> Str(<<"t">>)]

set_credentials ==
    /\ op = "none" /\ error = NoError /\ consulted = << >>
    /\ LET read_config == config_file.exists
           failed == IF ~read_config THEN NoError
                     ELSE IF config_get("login") # NoError THEN config_get("login")
                     ELSE config_get("password")
           \* after `if op.exists(self.config_file):`
           login1 == IF read_config THEN config_value("login") ELSE None
           password1 == IF read_config THEN config_value("password") ELSE None
           asked1 == IF read_config THEN <<"config">> ELSE << >>
           \* after the first `if login is None or password is None:`
           env == is_None(login1, password1)
           login2 == IF env THEN environ.PPMI_LOGIN ELSE login1
           password2 == IF env THEN environ.PPMI_PASSWORD ELSE password1
           asked2 == IF env THEN Append(asked1, "environment") ELSE asked1
           \* after the second one
           ask == is_None(login2, password2)
           login3 == IF ask THEN Prompted.login ELSE login2
           password3 == IF ask THEN Prompted.password ELSE password2
           asked3 == IF ask THEN Append(asked2, "prompt") ELSE asked2
           \* `if not read_config:` config.set of login, then of password
           refused == IF read_config THEN NoError
                      ELSE IF config_set(login3) # NoError THEN config_set(login3)
                      ELSE config_set(password3)
       IN  IF failed # NoError
           THEN /\ error' = failed
                /\ consulted' = asked1
                /\ UNCHANGED <<config_file, email, password, stored>>
           ELSE IF refused # NoError
           THEN /\ error' = refused
                /\ consulted' = asked3
                /\ UNCHANGED <<config_file, email, password, stored>>
           ELSE /\ consulted' = asked3
                /\ email' = login3
                /\ password' = password3
                /\ config_file' =
                      IF read_config THEN config_file
                      ELSE [exists |-> TRUE, login |-> login3, password |-> password3]
                /\ stored' =
                      IF read_config THEN stored
                      ELSE [login |-> login3, password |-> password3]
                /\ UNCHANGED error
    /\ UNCHANGED environ
    /\ UNCHANGED matchVars
    /\ UNCHANGED chainVars
    /\ UNCHANGED queryVars
    /\ UNCHANGED <<op, file_ids, pc, returned, steps, files, timeout, triggers>>
    /\ UNCHANGED sessionVars
    /\ UNCHANGED helperVars
    /\ UNCHANGED pollVars
    /\ UNCHANGED routeVars
    /\ UNCHANGED portalVars
    /\ UNCHANGED pageVars
    /\ UNCHANGED lifeVars

\* another PPMIDownloader is constructed with the same config_file, in an
\* environment that may have changed
construct_again ==
    /\ op = "none"
    /\ consulted # << >>
    /\ consulted' = << >>
    /\ error' = NoError
    /\ email' = None /\ password' = None
    /\ environ' \in Environs
    /\ UNCHANGED <<config_file, stored>>
    /\ UNCHANGED matchVars
    /\ UNCHANGED chainVars
    /\ UNCHANGED queryVars
    /\ UNCHANGED <<op, file_ids, pc, returned, steps, files, timeout, triggers>>
    /\ UNCHANGED sessionVars
    /\ UNCHANGED helperVars
    /\ UNCHANGED pollVars
    /\ UNCHANGED routeVars
    /\ UNCHANGED portalVars
    /\ UNCHANGED pageVars
    /\ UNCHANGED lifeVars

\* PPMIDownloader(config_file=...) in a directory and an environment
InitCredentials ==
    /\ config_file \in ConfigFiles
    /\ environ \in Environs
    /\ email = None /\ password = None /\ consulted = << >>
    /\ stored = NotStored
    /\ NoMatch
    /\ NoChain
    /\ NoQuery
    /\ op = "none" /\ pc = 0 /\ file_ids = << >>
    /\ error = NoError /\ returned = FALSE /\ steps = << >>
    /\ driver = "open" /\ tempdir = "exists" /\ files = {} /\ dest = {}
    /\ helper = "none" /\ budget = 0 /\ trials = 0
    /\ failures = 0 /\ opFails = 0 /\ opKind = "TimeoutException"
    /\ attempts = 0 /\ rpc = "idle" /\ elapsed = 0
    /\ clock = 0 /\ timeout = 1 /\ pollResult = "none"
    /\ lastListing = << >> /\ lastResult = "none"
    /\ triggers = 0 /\ screenshots = 0
    /\ routed = FALSE /\ i = 0 /\ downloaded_files = << >>
    /\ result = None /\ logged = << >>
    /\ ArbitraryPortal

NextCredentials == set_credentials \/ construct_again

SpecCredentials == InitCredentials /\ [][NextCredentials]_vars

-----------------------------------------------------------------------------
(* PPMINavigator.click_button_chain, call by call.  A name is the sequence
   of its words and of the characters between them. *)

ChainNames ==
    { <<"Download">>, <<"Study", " ", "Data">>, <<"ALL">>, <<"Search">>,
      <<"Advanced", " ", "Image", " ", "Search", " ", "(", "beta", ")">> }

\* the methods of PPMINavigator that the names of the model can spell
Methods ==
    { <<"Download">>,
      <<"Download", "_", "Study", "Data">>,
      <<"Download", "_", "Study", "Data", "_", "ALL">>,
      <<"Search">>,
      <<"Search", "_", "Advanced", "Image", "Search", "beta">> }

RECURSIVE click_chain_cleaner(_)
\* action.replace("(", "").replace(")", "").replace(" ", "")
click_chain_cleaner(name) ==
    IF name = << >> THEN << >>
    ELSE IF Head(name) \in {"(", ")", " "}
         THEN click_chain_cleaner(Tail(name))
         ELSE <<Head(name)>> \o click_chain_cleaner(Tail(name))

\* a join that keeps the last name only
join_last(names) == IF names = << >> THEN << >> ELSE names[Len(names)]

RECURSIVE join(_)
\* "_".join(action)
join(names) ==
    IF names = << >> THEN << >>
    ELSE IF Len(names) = 1 THEN names[1]
    ELSE join(SubSeq(names, 1, Len(names) - 1)) \o <<"_">> \o names[Len(names)]

\* what click_button_chain leaves alone
chainFrame ==
    /\ UNCHANGED <<op, file_ids, pc, steps, files, timeout, triggers>>
    /\ UNCHANGED sessionVars
    /\ UNCHANGED helperVars
    /\ UNCHANGED pollVars
    /\ UNCHANGED routeVars
    /\ UNCHANGED matchVars
    /\ UNCHANGED credentialVars
    /\ UNCHANGED queryVars
    /\ UNCHANGED portalVars
    /\ UNCHANGED pageVars
    /\ UNCHANGED lifeVars

\* one iteration of `for action_name in chain`: the name is cleaned and
\* appended, and getattr(self, "_".join(action))() starts the method, or
\* raises AttributeError when the navigator has no such method
click_button_chain ==
    /\ error = NoError /\ ~returned
    /\ running = << >>
    /\ Len(action) < Len(chain)
    /\ LET names == Append(action, click_chain_cleaner(chain[Len(action) + 1]))
       IN  /\ action' = names
           /\ IF join(names) \in Methods
              THEN /\ running' = join(names)
                   /\ called' = Append(called, join(names))
                   /\ UNCHANGED error
              ELSE /\ error' = Raise("AttributeError")
                   /\ UNCHANGED <<running, called>>
    /\ UNCHANGED <<chain, finished, returned>>
    /\ chainFrame

\* the method in progress returns, or what it raises leaves click_button_chain
method_ends ==
    /\ running # << >> /\ error = NoError
    /\ running' = << >>
    /\ \E ok \in BOOLEAN :
         IF ok
         THEN finished' = finished + 1 /\ UNCHANGED error
         ELSE /\ error' = logger_error("Number of trials is exceeded")
              /\ UNCHANGED finished
    /\ UNCHANGED <<chain, action, called, returned>>
    /\ chainFrame

\* the loop is over: click_button_chain returns
chain_returns ==
    /\ op = "none" /\ error = NoError /\ ~returned
    /\ running = << >>
    /\ Len(action) = Len(chain)
    /\ returned' = TRUE
    /\ UNCHANGED <<chain, action, called, running, finished, error>>
    /\ chainFrame

\* click_button_chain(chain) for every chain of at most MaxChain names
InitChain ==
    /\ chain \in UNION { [1..n -> ChainNames] : n \in 0..MaxChain }
    /\ action = << >> /\ called = << >> /\ running = << >> /\ finished = 0
    /\ NoMatch
    /\ NoCredentials
    /\ NoQuery
    /\ op = "none" /\ pc = 0 /\ file_ids = << >>
    /\ error = NoError /\ returned = FALSE /\ steps = << >>
    /\ driver = "open" /\ tempdir = "exists" /\ files = {} /\ dest = {}
    /\ helper = "none" /\ budget = 0 /\ trials = 0
    /\ failures = 0 /\ opFails = 0 /\ opKind = "TimeoutException"
    /\ attempts = 0 /\ rpc = "idle" /\ elapsed = 0
    /\ clock = 0 /\ timeout = 1 /\ pollResult = "none"
    /\ lastListing = << >> /\ lastResult = "none"
    /\ triggers = 0 /\ screenshots = 0
    /\ routed = FALSE /\ i = 0 /\ downloaded_files = << >>
    /\ result = None /\ logged = << >>
    /\ ArbitraryPortal

NextChain == click_button_chain \/ method_ends \/ chain_returns

SpecChain == InitChain /\ [][NextChain]_vars

-----------------------------------------------------------------------------
(* PPMINavigator.check_url_query.  A URL is the address of a page of the
   portal followed by "?" and its query parameters, name=value joined by
   "&"; the model keeps the list of the (name, value) pairs. *)

page_url == "https://ida.loni.usc.edu/pages/access/search.jsp"

QueryNames == {"page", "subPage"}
QueryValues == {"DOWNLOADS", "IMAGE_COLLECTIONS"}

Urls == UNION { [1..n -> QueryNames \X QueryValues] : n \in 0..MaxParams }

\* every dict of expected values
Queries == UNION { [N -> QueryValues] : N \in SUBSET QueryNames }

\* the key parse_qs gives to the k-th pair: it splits the string it is given
\* at "&" and each piece at its first "=".  It is given the whole URL, so
\* the first piece is address?name=value and its key is address?name
ParsedKey(u, k) ==
    IF k = 1 THEN <<page_url, "?", u[k][1]>> ELSE <<u[k][1]>>

RECURSIVE ParsedValues(_, _, _)
\* the values of the first n pairs that have the key, in their order
ParsedValues(u, key, n) ==
    IF n = 0 THEN << >>
    ELSE ParsedValues(u, key, n - 1)
           \o (IF ParsedKey(u, n) = key THEN <<u[n][2]>> ELSE << >>)

\* urllib.parse.parse_qs(url): key -> list of its values
parse_qs(u) ==
    [key \in { ParsedKey(u, k) : k \in DOMAIN u } |-> ParsedValues(u, key, Len(u))]

\* query.get(field, [""]).pop()
actual(query, field) ==
    IF <<field>> \in DOMAIN query
    THEN query[<<field>>][Len(query[<<field>>])]
    ELSE ""

\* check_url_query(url, queries): False at the first field whose actual
\* value is not the expected one, True after the loop
check_url_query ==
    /\ checked = "none"
    /\ LET query == parse_qs(url) IN
       checked' = IF \A field \in DOMAIN queries :
                        actual(query, field) = queries[field]
                  THEN "True" ELSE "False"
    /\ UNCHANGED <<url, queries>>
    /\ UNCHANGED matchVars
    /\ UNCHANGED credentialVars
    /\ UNCHANGED chainVars
    /\ UNCHANGED sessionState
    /\ UNCHANGED portalVars
    /\ UNCHANGED pageVars
    /\ UNCHANGED lifeVars

InitQuery ==
    /\ url \in Urls
    /\ queries \in Queries
    /\ checked = "none"
    /\ NoMatch
    /\ NoCredentials
    /\ NoChain
    /\ op = "none" /\ pc = 0 /\ file_ids = << >>
    /\ error = NoError /\ returned = FALSE /\ steps = << >>
    /\ driver = "open" /\ tempdir = "exists" /\ files = {} /\ dest = {}
    /\ helper = "none" /\ budget = 0 /\ trials = 0
    /\ failures = 0 /\ opFails = 0 /\ opKind = "TimeoutException"
    /\ attempts = 0 /\ rpc = "idle" /\ elapsed = 0
    /\ clock = 0 /\ timeout = 1 /\ pollResult = "none"
    /\ lastListing = << >> /\ lastResult = "none"
    /\ triggers = 0 /\ screenshots = 0
    /\ routed = FALSE /\ i = 0 /\ downloaded_files = << >>
    /\ result = None /\ logged = << >>
    /\ ArbitraryPortal

NextQuery == check_url_query

SpecQuery == InitQuery /\ [][NextQuery]_vars

-----------------------------------------------------------------------------
(* build-mapping.py: find_matching, and PPMIDownloader._get_real_name which
   inverts the mapping it wrote.  A similarity is a whole number of units of
   1/MaxScore; what the algorithms answer is an input of find_matching. *)

RealNames == {"Demographics.csv", "Age_at_visit.csv"}
GuessNames == {"Demographics", "Age_at_visit"}
Algorithms == {"hamming", "jaccard"}

\* the lists of distinct names of a set
ListsOf(S) ==
    { s \in UNION { [1..n -> S] : n \in 0..Cardinality(S) } :
        \A a, b \in DOMAIN s : a # b => s[a] # s[b] }

\* the characters two names start with in common, up to the first separator
SharedPrefix(real_name, guess_name) ==
    CASE real_name = "Demographics.csv" /\ guess_name = "Demographics" -> 12
      [] real_name = "Age_at_visit.csv" /\ guess_name = "Age_at_visit" -> 12
      [] OTHER -> 0

RECURSIVE SumOver(_, _, _)
\* sum(i[1]): the similarities the algorithms of A gave to (real_name, guess_name)
SumOver(A, real_name, guess_name) ==
    IF A = {} THEN 0
    ELSE LET a == CHOOSE a \in A : TRUE
         IN  algorithms[a][<<real_name, guess_name>>]
               + SumOver(A \ {a}, real_name, guess_name)

sum(real_name, guess_name) == SumOver(DOMAIN algorithms, real_name, guess_name)

RECURSIVE sorted_ties_last(_, _)
\* a descending sort that puts an item before the items of equal key
sorted_ties_last(items, guess_name) ==
    IF items = << >> THEN << >>
    ELSE LET n == Len(items)
             x == items[n]
             rest == sorted_ties_last(SubSeq(items, 1, n - 1), guess_name)
             before == { k \in DOMAIN rest :
                           sum(rest[k], guess_name) > sum(x, guess_name) }
             at == Cardinality(before)
         IN  SubSeq(rest, 1, at) \o <<x>> \o SubSeq(rest, at + 1, Len(rest))

RECURSIVE sorted(_, _)
\* sorted(scores_local.items(), key=lambda i: sum(i[1]), reverse=True): the
\* real names by descending sum; the sort is stable, items of equal sum keep
\* the order they were inserted in scores_local, which is the order of `real`
sorted(items, guess_name) ==
    IF items = << >> THEN << >>
    ELSE LET n == Len(items)
             x == items[n]
             rest == sorted(SubSeq(items, 1, n - 1), guess_name)
             before == { k \in DOMAIN rest :
                           sum(rest[k], guess_name) >= sum(x, guess_name) }
             at == Cardinality(before)
         IN  SubSeq(rest, 1, at) \o <<x>> \o SubSeq(rest, at + 1, Len(rest))

\* dict d with d[k] = v added or replaced
Set(d, k, v) == [x \in DOMAIN d \cup {k} |-> IF x = k THEN v ELSE d[x]]

\* the guessed names find_matching has not handled yet
Unmatched == { k \in DOMAIN guess : guess[k] \notin DOMAIN global_scores }

\* find_matching: one iteration of `for guess_name, _ in guess.items()`:
\* global_scores[guess_name] = scores_sorted[0][0]
find_matching ==
    /\ real # << >>
    /\ Unmatched # {}
    /\ LET k == CHOOSE k \in Unmatched : \A j \in Unmatched : k <= j
           guess_name == guess[k]
           scores_sorted == sorted(real, guess_name)
       IN  global_scores' = Set(global_scores, guess_name, scores_sorted[1])
    /\ UNCHANGED <<real, guess, algorithms, self_real_to_guessed>>
    /\ UNCHANGED credentialVars
    /\ UNCHANGED chainVars
    /\ UNCHANGED queryVars
    /\ UNCHANGED sessionState
    /\ UNCHANGED portalVars
    /\ UNCHANGED pageVars
    /\ UNCHANGED lifeVars

RECURSIVE Inverse(_, _)
\* {v: k for k, v in d.items()} over the keys in their order: a later key
\* replaces an earlier one that has the same value
Inverse(d, keys) ==
    IF keys = << >> THEN EmptyDict
    ELSE LET n == Len(keys)
         IN  Set(Inverse(d, SubSeq(keys, 1, n - 1)), d[keys[n]], keys[n])

\* PPMIDownloader._get_real_name, on the mapping find_matching returned
\* (written by output(), read back by json.load, keys in the same order)
get_real_name ==
    /\ guess # << >>
    /\ Unmatched = {}
    /\ self_real_to_guessed = EmptyDict
    /\ self_real_to_guessed' = Inverse(global_scores, guess)
    /\ UNCHANGED <<real, guess, algorithms, global_scores>>
    /\ UNCHANGED credentialVars
    /\ UNCHANGED chainVars
    /\ UNCHANGED queryVars
    /\ UNCHANGED sessionState
    /\ UNCHANGED portalVars
    /\ UNCHANGED pageVars
    /\ UNCHANGED lifeVars

\* find_matching(real, guess, algorithms) on a non-empty list of real names
InitMatch ==
    /\ real \in ListsOf(RealNames) \ {<< >>}
    /\ guess \in ListsOf(GuessNames)
    /\ algorithms \in [Algorithms -> [RealNames \X GuessNames -> 0..MaxScore]]
    /\ global_scores = EmptyDict
    /\ self_real_to_guessed = EmptyDict
    /\ NoCredentials
    /\ NoChain
    /\ NoQuery
    /\ op = "none" /\ pc = 0 /\ file_ids = << >>
    /\ error = NoError /\ returned = FALSE /\ steps = << >>
    /\ driver = "open" /\ tempdir = "exists" /\ files = {} /\ dest = {}
    /\ helper = "none" /\ budget = 0 /\ trials = 0
    /\ failures = 0 /\ opFails = 0 /\ opKind = "TimeoutException"
    /\ attempts = 0 /\ rpc = "idle" /\ elapsed = 0
    /\ clock = 0 /\ timeout = 1 /\ pollResult = "none"
    /\ lastListing = << >> /\ lastResult = "none"
    /\ triggers = 0 /\ screenshots = 0
    /\ routed = FALSE /\ i = 0 /\ downloaded_files = << >>
    /\ result = None /\ logged = << >>
    /\ ArbitraryPortal

NextMatch == find_matching \/ get_real_name

SpecMatch == InitMatch /\ [][NextMatch]_vars

-----------------------------------------------------------------------------
(* Properties of the retry helpers (checked under SpecRetry)               *)

Exceeded == logger_error("Number of trials is exceeded")

TransientKinds == WebDriverExceptions \ PermanentKinds

\* C1: a helper called with trial budget n >= 1 on an operation that fails
\* transiently exactly k times and then succeeds returns when n >= k + 1, and
\* when n <= k ends in the retry-budget failure (screenshot, driver quit,
\* fatal error) without the operation ever succeeding.
C1_RetryBudget ==
    (rpc \in {"returned", "raised"} /\ budget >= 1 /\ opKind \in TransientKinds)
    => /\ budget >= failures + 1 => rpc = "returned"
       /\ budget <= failures =>
            /\ rpc = "raised"
            /\ error = Exceeded
            /\ driver = "closed"
            /\ screenshots = 1

-----------------------------------------------------------------------------
(* Properties of the download pollers (checked under Spec)                 *)

AllAccepted(o, names) == \A k \in DOMAIN names : EndsWith(names[k], Accepted(o))

\* C2: a check of any of the three pollers on a listing that holds a
\* .crdownload file returns not-complete, whatever else is listed and in
\* whatever order.
C2_MarkerMeansNotComplete ==
    (lastResult # "none" /\ HasMarker(lastListing)) => lastResult = "False"

AtPoll ==
    /\ op \in Operations
    /\ pc \in 1..Len(Program(op))
    /\ Program(op)[pc].kind = "poll"

\* C3: a poller wait fails only with the download timeout, only once the
\* timeout has elapsed, and exactly when no check within it held.
C3_FailsOnlyByTimeout ==
    /\ (AtPoll /\ error # NoError) =>
          /\ pollResult = "TimeoutException"
          /\ clock > timeout
    /\ pollResult = "TimeoutException" => (clock > timeout /\ lastResult = "False")
    /\ pollResult = "complete" => lastResult = "True"

\* C4: the poller of download_imaging_data never reports complete on fewer
\* than 3 finished files, and no poller reports complete on an empty directory.
C4_ExpectedCount ==
    lastResult = "True" =>
        /\ Len(lastListing) > 0
        /\ op = "download_imaging_data" =>
              Cardinality({ k \in DOMAIN lastListing :
                              ~EndsWith(lastListing[k], Marker) })
                >= ExpectedImagingFiles

\* C5: when a poller reports complete, every listed name ends in an accepted
\* extension of its operation and none carries the .crdownload marker.
C5_CompleteMeansAllAccepted ==
    lastResult = "True" =>
        /\ AllAccepted(op, lastListing)
        /\ ~HasMarker(lastListing)

\* C6: on a listing with at least the expected number of files, no
\* .crdownload file and only accepted extensions, one check of the poller
\* returns complete.
C6_FinishedIsComplete ==
    ( /\ lastResult # "none"
      /\ Len(lastListing) >= Expected(op)
      /\ ~HasMarker(lastListing)
      /\ AllAccepted(op, lastListing) )
    => lastResult = "True"

C6_Witness ==
    /\ op = "download_metadata"
    /\ Len(lastListing) = 2
    /\ AllAccepted(op, lastListing)
    /\ lastResult = "True"

-----------------------------------------------------------------------------
(* Properties of the download operations (checked under Spec)              *)

VisibleTimeout == logger_error("wait for element to be visible times out")

LoginFailed == logger_error("Login Failed")

StepOrder == <<"login", "navigation", "selection", "trigger", "poll", "route">>

IsPrefix(s, t) ==
    /\ Len(s) <= Len(t)
    /\ \A k \in 1..Len(s) : s[k] = t[k]

\* the download-triggering clicks of an operation
TriggerClicks(o) ==
    Cardinality({ k \in DOMAIN Program(o) :
                    /\ Program(o)[k].phase = "trigger"
                    /\ Program(o)[k].kind = "click_button" })

\* C9: the steps of a download operation are entered in the order login,
\* navigation, selection, trigger, poll, route, none skipped and none entered
\* again; the poller starts only after every download-triggering click has
\* returned, and the router runs only after the poller reported complete.
C9_StepOrder ==
    /\ IsPrefix(steps, StepOrder)
    /\ pollResult # "none" =>
          (triggers >= 1 /\ triggers = TriggerClicks(op))
    /\ (routed \/ \E k \in DOMAIN steps : steps[k] = "route") =>
          (pollResult = "complete" /\ lastResult = "True")

C9_Witness ==
    /\ returned
    /\ routed
    /\ steps = StepOrder
    /\ pollResult = "complete"

UnknownException == logger_error("Unknown exception")

\* C11: when the retry budget is exhausted or a visibility wait has failed,
\* the failure that surfaces is the fatal retry-budget / visibility error and
\* the driver is closed, whatever take_screenshot did (also when it failed).
C11_ScreenshotNeverMasks ==
    /\ (rpc = "raised" /\ TrialsExceeded(trials))
          => (error = Exceeded /\ driver = "closed")
    /\ (op \in Operations /\ pc \in 1..Len(Program(op))
          /\ Program(op)[pc].kind = "wait_visible" /\ error # NoError)
          => (error \in {VisibleTimeout, UnknownException} /\ driver = "closed")

\* the statements of an operation that click an element or type into one
ClickOrType == {"click_button", "enter_data", "select", "ok_click"}

\* C14: every statement of a download operation that clicks or types does it
\* through a retry helper (click_button, enter_data), never directly on the
\* driver or on an element.
C14_OnlyThroughHelpers ==
    (op \in Operations /\ pc \in 1..Len(Program(op))
       /\ Program(op)[pc].kind \in ClickOrType)
    => Program(op)[pc].kind \in Helpers

\* the tests of the `while not postcondition():` loops of an operation
NavigatorLoops(o) ==
    { k \in DOMAIN Program(o) : Program(o)[k].kind = "postcondition" }

\* C12: every navigator action terminates: an operation that enters the loop
\* of an action leaves it (postcondition reached) or fails, whatever the
\* portal answers, also when every click succeeds and the postcondition never
\* becomes true.
C12_NavigatorTerminates ==
    \A o \in Operations : \A k \in NavigatorLoops(o) :
        (op = o /\ pc = k)
          ~> (pc >= k + Program(o)[k].alt \/ error # NoError)

-----------------------------------------------------------------------------
(* Properties of the file router (checked under Spec)                      *)

\* C15: unzip_file called on a single file with the destination empty: for
\* an archive with the members a.csv and b.xml the destination holds exactly
\* these two; for a file that is no archive the destination holds exactly
\* that file and the source directory holds it no longer.
C15_UnzipFile ==
    (op \in {"download_metadata", "download_3D_T1_info"}
       /\ routed /\ error = NoError /\ result.type = "str")
    => IF EndsWith(result.value, {".zip"})
       THEN dest = { <<"a", ".csv">>, <<"b", ".xml">> }
       ELSE dest = {result.value} /\ result.value \notin files

C15_Witness ==
    /\ result = Str(csvFile)
    /\ dest = {csvFile}
    /\ files = {}
    /\ returned

\* what routing the file f adds to the destination
Routed(f) == IF EndsWith(f, {".zip"}) THEN ZipMembers(f) ELSE {f}

\* unzip_imaging_data is about to handle a name its operation does not accept
AtUnaccepted ==
    /\ op = "download_imaging_data"
    /\ pc \in 1..Len(Program(op))
    /\ Program(op)[pc].kind = "unzip_imaging_data"
    /\ i < Len(downloaded_files)
    /\ ~EndsWith(downloaded_files[i + 1], Accepted(op))

\* C16: whenever the router puts something into the destination it comes
\* from a file of the temporary directory whose name ends in an extension
\* accepted by the operation's poller; and a name that does not makes the
\* router fail with an AssertionError, the file neither moved nor extracted.
C16_RouterAcceptsOnly ==
    [][ /\ dest' # dest =>
              \E f \in files :
                  /\ EndsWith(f, Accepted(op))
                  /\ dest' = dest \cup Routed(f)
        /\ (AtUnaccepted /\ error = NoError) =>
              /\ error' = Raise("AssertionError")
              /\ dest' = dest
              /\ files' = files ]_vars

C16_Witness ==
    /\ AtUnaccepted
    /\ error = Raise("AssertionError")
    /\ downloaded_files[i + 1] \in files
    /\ downloaded_files[i + 1] \notin dest
    /\ dest # {}

\* unzip_imaging_data has raised
UnzipImagingFailed ==
    /\ op = "download_imaging_data"
    /\ pc \in 1..Len(Program(op))
    /\ Program(op)[pc].kind = "unzip_imaging_data"
    /\ error # NoError

\* C17: when unzip_imaging_data fails on a file of its list, what the files
\* before it put into the destination is still there, and that file and the
\* files after it are still in the temporary directory, not in the
\* destination.
C17_NoRollback ==
    UnzipImagingFailed =>
        /\ tempdir = "exists"
        /\ \A k \in 1..i : Routed(downloaded_files[k]) \subseteq dest
        /\ \A k \in (i + 1)..Len(downloaded_files) :
              /\ downloaded_files[k] \in files
              /\ downloaded_files[k] \notin dest

C17_Witness ==
    /\ UnzipImagingFailed
    /\ i = 1
    /\ Len(downloaded_files) = 3
    /\ Routed(downloaded_files[1]) \subseteq dest
    /\ downloaded_files[3] \in files

\* download_metadata or download_3D_T1_info has returned
MetadataReturned ==
    /\ op \in {"download_metadata", "download_3D_T1_info"}
    /\ returned

\* C18 as stated: when the routed file is an archive the router returns the
\* list of the archive's members (at least its first two names); a file that
\* is no archive is in the destination under its own name.
C18_ResultIsMemberList ==
    MetadataReturned =>
        IF zipFile \in files
        THEN /\ result.type = "list"
             /\ FirstTwo(result.value) = FirstTwo(namelist(zipFile))
        ELSE dest \subseteq FileNames /\ dest # {}

\* C18 amended: the router returns the name of the downloaded file itself,
\* also when it is an archive (unzip_imaging_data returns the list it was
\* given); the first two member names of an archive are only logged; a file
\* that is no archive is in the destination under its own name.
C18_ResultIsFileName ==
    /\ MetadataReturned =>
          /\ result.type = "str"
          /\ IF EndsWith(result.value, {".zip"})
             THEN /\ result.value \in files
                  /\ logged = FirstTwo(namelist(result.value))
                  /\ ZipMembers(result.value) \subseteq dest
             ELSE /\ result.value \in dest
                  /\ logged = <<result.value>>
    /\ (op = "download_imaging_data" /\ returned /\ routed) =>
          result = List(downloaded_files)

C18_Witness ==
    /\ MetadataReturned
    /\ result = Str(zipFile)
    /\ logged = namelist(zipFile)
    /\ dest = ZipMembers(zipFile)

-----------------------------------------------------------------------------
(* Properties of the session (checked under Spec)                          *)

\* C19 as stated: when a download operation has returned, the temporary
\* directory of the session has been removed and its driver closed.
C19_DestroyedAtReturn ==
    (op \in Operations /\ returned) =>
        (tempdir = "removed" /\ driver = "closed")

\* C19 amended: a download operation that returns leaves the session as it
\* is, the temporary directory in place and the driver open.
C19_AliveAtReturn ==
    (op \in Operations /\ returned) =>
        (tempdir = "exists" /\ driver = "open")

C19_Witness ==
    /\ op = "download_metadata"
    /\ returned
    /\ tempdir = "exists"
    /\ driver = "open"
    /\ dest # {}

-----------------------------------------------------------------------------
(* Properties of the name resolution (checked under Spec)                  *)

\* C20: download_metadata called with a list that holds, at any position, an
\* identifier that is in neither mapping does nothing remote (no phase of the
\* operation is entered, nothing is asked of the driver) and fails with the
\* Exception of the validation.
C20_UnknownNameFailsFirst ==
    (op = "download_metadata"
       /\ \E k \in DOMAIN file_ids : file_ids[k] = "Unknown")
    => /\ pc = 1
       /\ steps = << >>
       /\ rpc = "idle" /\ attempts = 0 /\ triggers = 0
       /\ driver = "open" /\ tempdir = "exists"
       /\ error \in {NoError, Raise("Exception")}
       /\ ~returned

C20_Witness ==
    /\ op = "download_metadata"
    /\ Len(file_ids) = 2
    /\ file_ids[1] = "Demographics"
    /\ file_ids[2] = "Unknown"
    /\ error = Raise("Exception")
    /\ steps = << >>

\* the positions of a request whose name has no checkbox id: the name is in
\* neither mapping, or it is a real name whose guessed name has no checkbox
Unresolved(ids) ==
    { k \in DOMAIN ids :
        IF ids[k] \in supported_files
        THEN checkbox_id(ids[k]).type = "None"
        ELSE TRUE }

\* C21: download_metadata never runs its checkbox lookups and clicks on a
\* request that holds an identifier without a checkbox id (a name in neither
\* mapping, or a real name whose guessed name has no checkbox): such a
\* request ends in an error before the selection.
C21_NoLookupWithNullId ==
    [][ (At("select") /\ steps' # steps) => Unresolved(file_ids) = {} ]_vars

-----------------------------------------------------------------------------
(* Properties of the name mapping (checked under SpecMatch)                *)

\* C22: the mapping find_matching returns has unique values, so the inverse
\* _get_real_name builds loses no entry: real_to_guessed[guessed_to_real[g]]
\* is g for every guessed name g.
C22_InverseLosesNothing ==
    self_real_to_guessed # EmptyDict =>
        \A g \in DOMAIN global_scores :
            self_real_to_guessed[global_scores[g]] = g

\* the positions of `real` whose name has the largest sum for guess_name
Maximal(guess_name) ==
    { k \in DOMAIN real :
        \A j \in DOMAIN real : sum(real[j], guess_name) <= sum(real[k], guess_name) }

\* every algorithm gives more to the real name that shares the longer prefix
MonotonicInSharedPrefix ==
    \A a \in DOMAIN algorithms : \A g \in GuessNames : \A r1, r2 \in RealNames :
        SharedPrefix(r1, g) > SharedPrefix(r2, g)
          => algorithms[a][<<r1, g>>] > algorithms[a][<<r2, g>>]

\* C23: find_matching maps every guessed name to a real name whose summed
\* similarity over the algorithms is maximal, the first of them in the order
\* of the list of real names; with similarities monotonic in the shared
\* prefix, "Demographics" is mapped to "Demographics.csv" when it is listed.
C23_FirstOfMaximalSum ==
    /\ \A g \in DOMAIN global_scores :
          \E k \in Maximal(g) :
              /\ global_scores[g] = real[k]
              /\ \A j \in Maximal(g) : k <= j
    /\ ( /\ MonotonicInSharedPrefix
         /\ "Demographics" \in DOMAIN global_scores
         /\ \E k \in DOMAIN real : real[k] = "Demographics.csv" )
       => global_scores["Demographics"] = "Demographics.csv"

C23_Witness ==
    /\ real = <<"Age_at_visit.csv", "Demographics.csv">>
    /\ "Demographics" \in DOMAIN global_scores
    /\ sum("Age_at_visit.csv", "Demographics") = sum("Demographics.csv", "Demographics")
    /\ sum("Demographics.csv", "Demographics") >= 1
    /\ global_scores["Demographics"] = "Age_at_visit.csv"

-----------------------------------------------------------------------------
(* Properties of the login (checked under SpecPortal)                      *)

\* C24: once login() has clicked the Login button with credentials the
\* portal rejects, it does not return: it ends in the fatal "Login Failed"
\* error, however long the portal takes to display its message.
C24_RejectedLoginFails ==
    (Submitted /\ credentials = "invalid") =>
        /\ pc = Len(init_and_log)
        /\ ~returned
        /\ error \in {NoError, LoginFailed}

\* C25: login() called on a session that is logged in types neither email
\* nor password and does not click the Login button (the statements of the
\* form are not reached, the only helper call is the click on the cookie
\* banner), and when it returns the session is logged in and the driver open.
C25_SecondLoginDoesNothing ==
    (op = "init_and_log" /\ was_logged_in) =>
        /\ \A k \in DOMAIN steps : steps[k] # "form"
        /\ pc \notin LoginForm
        /\ helper # "enter_data"
        /\ returned => (logged_in /\ driver = "open" /\ error = NoError)

C25_Witness ==
    /\ op = "init_and_log"
    /\ was_logged_in
    /\ returned
    /\ steps = <<"login">>
    /\ logged_in /\ driver = "open"

-----------------------------------------------------------------------------
(* Properties of the navigator actions on a regular portal (SpecPortal)    *)

\* the click of HamburgerMenu_Download among the statements of Download
SubmenuClick ==
    CHOOSE k \in DOMAIN DownloadTargets :
        /\ DownloadTargets[k] = On("click", DownloadMenu)
        /\ \A j \in 1..(k - 1) : DownloadTargets[j] # On("click", DownloadMenu)

\* C26: Download() with the hamburger menu displayed opens the hamburger
\* menu first (the main options are active from the end of HamburgerMenu
\* until the Download submenu is clicked, and while it is being clicked),
\* and it returns only with the Download submenu clicked and active; with
\* the hamburger menu not displayed it never clicks the hamburger button.
C26_HamburgerDownload ==
    op = "Download" =>
        /\ (hamburger /\ pc >= SubmenuClick - 1 /\ DownloadMenu \notin clicked)
              => MainOptions \in active
        /\ (hamburger /\ pc = SubmenuClick /\ rpc # "idle")
              => MainOptions \in active
        /\ returned => (DownloadMenu \in active /\ DownloadMenu \in clicked)
        /\ ~hamburger => HamburgerButton \notin clicked

C26_Witness ==
    /\ op = "Download"
    /\ hamburger
    /\ returned
    /\ clicked = {HamburgerButton, DownloadMenu}
    /\ active = {DownloadMenu}

\* C29: when click_button_chain(["Download", "Study Data", "ALL"]) has
\* returned, Download_StudyData_ALL has clicked the ALL tab or the ALL
\* checkbox at least once.
C29_AllClicked ==
    (op = "click_button_chain" /\ returned) =>
        (AllTab \in clicked \/ AllCheckbox \in clicked)

-----------------------------------------------------------------------------
(* Properties of the credentials (checked under SpecCredentials)           *)

\* the sources in their order of precedence
Sources == <<"config", "environment", "prompt">>

\* what a source holds for login and password
Held(source) ==
    CASE source = "config" ->
           [login |-> config_value("login"), password |-> config_value("password")]
      [] source = "environment" ->
           [login |-> environ.PPMI_LOGIN, password |-> environ.PPMI_PASSWORD]
      [] source = "prompt" -> Prompted

\* the source supplies both values
Supplies(source) == ~is_None(Held(source).login, Held(source).password)

\* C27: __set_credentials takes the credentials from the first source, in
\* the order configuration file, environment, prompt, that supplies both
\* login and password, and asks no source after that one: a source is asked
\* only when none before it supplied both.
C27_FirstSourceWins ==
    [][ \E k \in DOMAIN Sources :
            /\ Supplies(Sources[k])
            /\ \A j \in 1..(k - 1) : ~Supplies(Sources[j])
            /\ error' = NoError
            /\ email' = Held(Sources[k]).login
            /\ password' = Held(Sources[k]).password
            /\ \A n \in DOMAIN consulted' :
                  \E j \in 1..k : consulted'[n] = Sources[j]
            /\ consulted' # << >>
            /\ consulted'[Len(consulted')] = Sources[k] ]_vars

-----------------------------------------------------------------------------
(* Properties of the navigator loops (checked under Spec)                  *)

\* the statements of the loop whose test is statement k of operation o
LoopBody(o, k) == k..(k + Program(o)[k].alt - 1)

\* C28: a navigator action that clicks until its postcondition is met is
\* left, when it is not by a failure, only by a test of its postcondition
\* that held: no other statement of its loop ends the action.
C28_LeftByPostconditionOnly ==
    [][ \A k \in NavigatorLoops(op) :
            ( /\ pc \in LoopBody(op, k)
              /\ pc' \notin LoopBody(op, k)
              /\ error' = NoError )
            => (pc = k /\ pc' = k + Program(op)[k].alt) ]_vars

-----------------------------------------------------------------------------
(* Properties of click_button_chain (checked under SpecChain)              *)

RECURSIVE PrefixName(_)
\* the first k names of the chain, cleaned, with "_" between them
PrefixName(k) ==
    IF k = 0 THEN << >>
    ELSE LET cleaned == SelectSeq(chain[k], LAMBDA w : w \notin {"(", ")", " "})
         IN  IF k = 1 THEN cleaned ELSE PrefixName(k - 1) \o <<"_">> \o cleaned

\* the calls made so far are those of the chain, in order and one at a time
ChainInOrder ==
    /\ Len(called) <= Len(chain)
    /\ \A k \in DOMAIN called : called[k] = PrefixName(k)
    /\ Len(called) <= finished + 1
    /\ running # << >> => (Len(called) = finished + 1 /\ running = called[Len(called)])
    /\ returned => (Len(called) = Len(chain) /\ finished = Len(chain))
    /\ error # NoError => (running = << >> /\ ~returned /\ Len(called) <= finished + 1)

\* C30: click_button_chain on a chain of n names calls, in order, the
\* methods named by the first 1, 2, ... cleaned names joined with "_", the
\* next one only after the one before has returned; it returns after exactly
\* n calls; and once a call has failed (or a method does not exist) it calls
\* nothing more.
C30_ChainInOrder ==
    [][ /\ ChainInOrder'
        /\ error # NoError => (called' = called /\ running' = running) ]_vars

C30_Witness ==
    /\ chain = << <<"Download">>, <<"Study", " ", "Data">>, <<"ALL">> >>
    /\ returned
    /\ called = << <<"Download">>,
                   <<"Download", "_", "Study", "Data">>,
                   <<"Download", "_", "Study", "Data", "_", "ALL">> >>

-----------------------------------------------------------------------------
(* Properties of unzip_metadata (checked under SpecRoute)                  *)

\* a step of unzip_metadata (the browser changes the directory only)
RouterStep ==
    /\ At("unzip_metadata")
    /\ <<i, pc, error>>' # <<i, pc, error>>

AssertionError == Raise("AssertionError")

\* C31: unzip_metadata lists the directory at most 10 times; it routes the
\* file, and returns its name, exactly when the listing holds one name and
\* that name ends in .zip or .csv; one name without such an extension is
\* listed again while fewer than 10 listings were made; and with no name or
\* several names listed, or no such extension at the 10th listing, it fails
\* with an AssertionError, both directories left as they are.
C31_RoutesLoneMetadataFile ==
    [][ RouterStep =>
          /\ i < UnzipMetadataChecks /\ i' <= UnzipMetadataChecks
          /\ IF \E f \in files : files = {f} /\ EndsWith(f, {".zip", ".csv"})
             THEN /\ dest' = dest \cup Routed(CHOOSE f \in files : TRUE)
                  /\ result' = Str(CHOOSE f \in files : TRUE)
                  /\ error' = NoError
                  /\ pc' = pc + 1
             ELSE /\ dest' = dest /\ files' = files /\ result' = result
                  /\ pc' = pc
                  /\ IF Cardinality(files) = 1 /\ i + 1 < UnzipMetadataChecks
                     THEN error' = NoError /\ i' = i + 1
                     ELSE error' = AssertionError ]_vars

C31_Witness ==
    /\ op = "unzip_metadata"
    /\ i = UnzipMetadataChecks
    /\ files = {tmpFile}
    /\ error = AssertionError
    /\ dest = {}

-----------------------------------------------------------------------------
(* Properties of the visibility wait (checked under Spec)                  *)

\* C32: a wait_for_element_to_be_visible that does not find its element in
\* time: called with raise_exception=True (by login, which catches the
\* TimeoutException and goes on to the form) it leaves the driver open and
\* takes no screenshot; called with raise_exception=False it takes a
\* screenshot, closes the driver and ends in the fatal error
\* "wait for element to be visible times out", and the operation does not go
\* on.
C32_VisibilityTimeout ==
    [][ /\ At("wait_visible_raise") =>
              (driver' = driver /\ screenshots' = screenshots)
        /\ (At("wait_visible") /\ error' \notin {NoError, UnknownException}) =>
              /\ screenshots' = screenshots + 1
              /\ driver' = "closed"
              /\ error' = VisibleTimeout
              /\ pc' = pc /\ ~returned' ]_vars

-----------------------------------------------------------------------------
(* Properties of check_url_query (checked under SpecQuery)                 *)

\* C33: check_url_query(url, queries) returns True exactly when every
\* (name, expected) pair of queries is a query parameter of url with that
\* value, at whatever position of the query string.
C33_QueryMatch ==
    checked # "none" =>
        ( checked = "True"
          <=> \A name \in DOMAIN queries :
                 \E k \in DOMAIN url : url[k] = <<name, queries[name]>> )

-----------------------------------------------------------------------------
(* Properties of the life of a PPMIDownloader (checked under SpecSession)  *)

\* C34: in every sequence of download operations on one PPMIDownloader, a
\* poller wait starts with a temporary directory that holds no file that
\* was there when its operation was called, and a poller reports complete
\* only on a listing without such a file.
C34_PollerSeesOwnFilesOnly ==
    /\ (AtPoll /\ pollResult = "none") => files \cap left = {}
    /\ (AtPoll /\ lastResult = "True") => Range(lastListing) \cap left = {}

-----------------------------------------------------------------------------
(* Properties of the selection (checked under SpecSelect)                  *)

\* C35: when the selection loop of download_metadata has run on a page that
\* has the checkboxes, and the operation goes on to click the download
\* button, the checkbox of every requested identifier that has one is
\* selected, whatever the request: also when it repeats an identifier or
\* holds both the guessed and the real name of a file.
C35_EveryRequestedSelected ==
    [][ (At("select") /\ pc' = pc + 1 /\ error' = NoError) =>
            \A k \in DOMAIN file_ids :
                checkbox_id(file_ids[k]).type = "str"
                  => checkbox_id(file_ids[k]).value \in selected' ]_vars

\* C36: once the driver has been closed, by quit() or by a failure that
\* closes it (retry budget, visibility wait, download timeout), nothing sends
\* a command to it any more: no statement of an operation, no later quit()
\* and not the destructor.
C36_NoCommandAfterClose == ~stale

\* a step that is a call of quit(): by the user, by __del__, or by the
\* handler of the download timeout
QuitStep ==
    \/ teardown' # teardown
    \/ At("poll") /\ pollResult = "TimeoutException" /\ error' # NoError

\* C37: a call of quit() on a session whose driver is open and whose
\* temporary directory exists ends with the directory removed and the driver
\* closed, also when the cleanup of the directory or the deletion of the
\* cookies fails.
C37_QuitTearsDownBoth ==
    [][ (QuitStep /\ driver = "open" /\ tempdir = "exists") =>
            (tempdir' = "removed" /\ driver' = "closed") ]_vars

-----------------------------------------------------------------------------
(* Properties of the select-all action (checked under SpecSelectAll)       *)

\* the click of click_button("advResultSelectAll") reaches the page
SelectAllClicked ==
    /\ op = "Search_AdvancedImageSearchbeta_SelectAll"
    /\ rpc = "returned" /\ rpc' = "idle"

\* C38: Search_AdvancedImageSearchbeta_SelectAll never clicks the select-all
\* checkbox when it is selected and add-to-collection is enabled, however
\* the changes the page makes on its own fall between the tests of the
\* postcondition and the clicks.
C38_NoClickOnceSelected ==
    [][ SelectAllClicked =>
            ~(SelectAll \in selected /\ AddToCollection \in enabled) ]_vars

-----------------------------------------------------------------------------
(* Properties of the configuration file (checked under SpecCredentials)    *)

\* a step that is a run of __set_credentials
Constructed == consulted = << >> /\ consulted' # << >>

\* C39: a construction that finds no configuration file writes the
\* credentials it obtained to the file; a construction that finds the file
\* never rewrites it; and a construction that finds a file written by an
\* earlier construction takes the credentials that construction obtained,
\* whatever the environment holds by then.
C39_StoredCredentialsReused ==
    [][ Constructed =>
          /\ config_file.exists => config_file' = config_file
          /\ ~config_file.exists =>
                /\ error' = NoError
                /\ config_file'.exists
                /\ config_file'.login = email'
                /\ config_file'.password = password'
          /\ stored # NotStored =>
                /\ error' = NoError
                /\ email' = stored.login
                /\ password' = stored.password ]_vars

====
